---------------------------- MODULE Spec2Model ----------------------------
(***************************************************************************)
(* RVms SharePoint client: SharepointDocument (src/RVms/sharepoint/        *)
(* document.py) and SharePointSite (site.py), on top of                    *)
(* SPConnection.graph_request (auth.py) and translate_graph_error          *)
(* (src/RVms/connection/exceptions.py).                                    *)
(*                                                                         *)
(* Spec         one upload() call on one Document; every HTTP exchange is  *)
(*              one step, the remote's answer is an input of the step,     *)
(*              and the request with its answer is appended to reqs.       *)
(* SpecRequest  calls on the connection: construction, get_access_token,   *)
(*              graph_request, translate_graph_error.                      *)
(* SpecSite     calls on one Site, one after the other.                    *)
(* SpecThreads  threads calling get_drive_id on one Site at the same time. *)
(* SpecFolder   ensure_folder() called once or twice on a drive with      *)
(*              folders and files.                                         *)
(* SpecRace     callers walking folder paths on one drive at the same time.*)
(* SpecUrl      the server-relative URL built and parsed, as path strings. *)
(* SpecAnyPath  one upload() call with a folder path as callers write it.  *)
(* SpecDoc      delete, set_metadata, get_preauth_url, get_preview_url,    *)
(*              download, upload and ensure_folder on a Document, in any   *)
(*              order.                                                     *)
(* SpecLazy     load_by_path and the calls that need the item, on          *)
(*              Documents constructed with a url or without one.           *)
(* SpecItem     from_drive_item on the items of a listing.                 *)
(* SpecAsync    sp_upload_async (src/RVms/utils/background.py): the caller *)
(*              and its worker threads.                                    *)
(*                                                                         *)
(* Paths in the drive are sequences of segments ("inv/f.bin" is            *)
(* <<"inv", "f.bin">>).  The local file does not change while it is        *)
(* uploaded.                                                               *)
(***************************************************************************)
EXTENDS Integers, Sequences, FiniteSets, TLC

----------------------------------------------------------------------------
(* Sizes *)

MiB == 1024 * 1024

\* document.py:339
small_file_threshold == 4 * MiB

\* The largest number of chunks of one upload session in the model.
MaxChunks == 3

FileSizes ==
    { 0, 1, small_file_threshold - 1, small_file_threshold,
      small_file_threshold + 1, 8 * MiB, 12 * MiB }

\* 10 MiB is upload()'s default, 4 MiB _upload_large_file_stream()'s.
ChunkSizes == { 3 * MiB - 1, 3 * MiB, 4 * MiB, 5 * MiB, 10 * MiB }

Min(a, b) == IF a <= b THEN a ELSE b

NumChunks(size, chunk) == (size + chunk - 1) \div chunk

----------------------------------------------------------------------------
(* Values *)

None   == "<None>"
Absent == "<absent>"

\* A decoded JSON object with (at most) the keys the code reads.
Dict(id, url) == [kind |-> "dict", id |-> id, uploadUrl |-> url]
\* A requests.Response handle, as graph_request returns it undecoded.
RawResponse   == [kind |-> "Response", id |-> Absent, uploadUrl |-> Absent]
\* A body that is not JSON.
TextBody      == [kind |-> "text", id |-> Absent, uploadUrl |-> Absent]
NoneValue     == [kind |-> "None", id |-> Absent, uploadUrl |-> Absent]

ItemIds    == {"item-a", "item-b"}
UploadUrls == {"https://upload/u1"}

Bodies ==
    {TextBody} \cup {Dict(i, Absent) : i \in ItemIds}
               \cup {Dict(Absent, u) : u \in UploadUrls}

\* Status 0 stands for no HTTP answer at all (requests raises).
NoAnswer == 0
Statuses == {200, 201, 202, 401, 403, 404, 409, 500}

Answers ==
    [status : Statuses, json : BOOLEAN, body : Bodies]
    \cup {[status |-> NoAnswer, json |-> FALSE, body |-> TextBody]}

NoException == [exc |-> "none", status |-> 0]
Raise(kind, status) == [exc |-> kind, status |-> status]

\* exceptions.py:24-36: GraphError(message, status_code, response_text); the
\* response text is the body of the answer as it came.
GraphError(status_code, response_text) ==
    [exc |-> "GraphError", status |-> status_code,
     response_text |-> response_text]

\* `raise kind(...) from e`: the new exception has e as its __cause__; its
\* message quotes e's status.
RaiseFrom(kind, e) == [exc |-> kind, status |-> e.status, cause |-> e]

----------------------------------------------------------------------------
(* The site *)

SitePath       == <<"sites", "Finance">>
DefaultLibrary == "Documents"
Drives == << [id |-> "drive-A", name |-> "Documents"],
             [id |-> "drive-B", name |-> "Archive"] >>

SpPaths  == { <<>>, <<"inv">> }
FileName == "f.bin"


----------------------------------------------------------------------------
(* SPConnection.graph_request and translate_graph_error *)

DefaultExpected == {200, 201, 204}

\* Mutant: every 2xx status is taken as expected.
GraphRequest_Any2xx(expected, stream, ans) ==
    IF ans.status = NoAnswer
    THEN [raised |-> Raise("RequestException", 0), value |-> NoneValue]
    ELSE IF ans.status \notin expected /\ ~(ans.status \in 200..299)
    THEN [raised |-> GraphError(ans.status, ans.body), value |-> NoneValue]
    ELSE IF ans.status = 204 \/ stream \/ ~ans.json
    THEN [raised |-> NoException, value |-> RawResponse]
    ELSE IF ans.body.kind = "dict"
    THEN [raised |-> NoException, value |-> ans.body]
    ELSE [raised |-> NoException, value |-> RawResponse]

\* Mutant: a JSON answer is decoded whether or not a stream was asked for.
GraphRequest_DecodeStream(expected, stream, ans) ==
    IF ans.status = NoAnswer
    THEN [raised |-> Raise("RequestException", 0), value |-> NoneValue]
    ELSE IF ans.status \notin expected
    THEN [raised |-> GraphError(ans.status, ans.body), value |-> NoneValue]
    ELSE IF ans.status = 204 \/ ~ans.json
    THEN [raised |-> NoException, value |-> RawResponse]
    ELSE IF ans.body.kind = "dict"
    THEN [raised |-> NoException, value |-> ans.body]
    ELSE [raised |-> NoException, value |-> RawResponse]

\* auth.py:109-138, with the token given: one HTTP exchange, whose answer is
\* ans.  The result is the exception raised (if any) and the value returned.
GraphRequest(expected, stream, ans) ==
    IF ans.status = NoAnswer
    THEN [raised |-> Raise("RequestException", 0), value |-> NoneValue]
    ELSE IF ans.status \notin expected
    THEN [raised |-> GraphError(ans.status, ans.body), value |-> NoneValue]
    ELSE IF ans.status = 204 \/ stream \/ ~ans.json
    THEN [raised |-> NoException, value |-> RawResponse]
    ELSE IF ans.body.kind = "dict"
    THEN [raised |-> NoException, value |-> ans.body]
    ELSE [raised |-> NoException, value |-> RawResponse]

\* Mutant: 403 is reported as not found, and a 409 loses its cause.
TranslateGraphError_Blurred(e) ==
    IF e.status \in {403, 404} THEN RaiseFrom("SharePointNotFoundError", e)
    ELSE IF e.status = 401 THEN RaiseFrom("SharePointPermissionError", e)
    ELSE IF e.status = 409 THEN Raise("SharePointConflictError", e.status)
    ELSE e

\* exceptions.py:72-100: the exception that leaves translate_graph_error(e).
TranslateGraphError(e) ==
    IF e.status = 404 THEN RaiseFrom("SharePointNotFoundError", e)
    ELSE IF e.status \in {401, 403}
    THEN RaiseFrom("SharePointPermissionError", e)
    ELSE IF e.status = 409 THEN RaiseFrom("SharePointConflictError", e)
    ELSE e

\* `except GraphError as e: translate_graph_error(target, e)`: what leaves the
\* handler when the guarded call raised e.
ExceptGraphError(e) ==
    IF e.exc = "GraphError" THEN TranslateGraphError(e) ELSE e

\* The argument expected_status: an int, or a tuple of ints.
IntStatus(n)   == [type |-> "int", v |-> n]
TupleStatus(t) == [type |-> "tuple", v |-> t]

\* auth.py:117-118
ExpectedSet(expected_status) ==
    IF expected_status.type = "int" THEN {expected_status.v}
    ELSE expected_status.v

\* What msal's acquire_token_for_client answers: a token, or an error
\* description without one.
MsalResults ==
    { [access_token |-> "tok-msal", error |-> Absent],
      [access_token |-> Absent, error |-> "invalid_client"] }

\* auth.py:69-81: get_access_token(), on the result msal gave.
AccessToken(msal) ==
    IF msal.access_token = Absent
    THEN [raised |-> Raise("RvspConfigError", 0), value |-> None]
    ELSE [raised |-> NoException, value |-> msal.access_token]

\* Mutant: a token is acquired although the caller supplied one.
GraphRequestCall_AlwaysAcquire(expected_status, token, stream, msal, ans) ==
    LET t == AccessToken(msal) IN
    IF t.raised # NoException
    THEN [raised |-> t.raised, value |-> NoneValue, sent |-> <<>>,
          acquired |-> 1]
    ELSE LET r == GraphRequest(ExpectedSet(expected_status), stream, ans) IN
         [raised |-> r.raised, value |-> r.value,
          sent |-> <<[authorization |-> t.value, status |-> ans.status]>>,
          acquired |-> 1]

\* auth.py:83-138: graph_request(method, url, expected_status, token,
\* stream=...).  sent lists the HTTP requests made, acquired counts the
\* calls of get_access_token.
GraphRequestCall(expected_status, token, stream, msal, ans) ==
    LET acquired == IF token = None THEN 1 ELSE 0
        t == IF token = None THEN AccessToken(msal)
             ELSE [raised |-> NoException, value |-> token]
    IN  IF t.raised # NoException
        THEN [raised |-> t.raised, value |-> NoneValue, sent |-> <<>>,
              acquired |-> acquired]
        ELSE LET r == GraphRequest(ExpectedSet(expected_status), stream, ans) IN
             [raised |-> r.raised, value |-> r.value,
              sent |-> <<[authorization |-> t.value, status |-> ans.status]>>,
              acquired |-> acquired]

\* A value that `not value` takes for missing.
Falsy(v) == v \in {None, ""}

\* auth.py:42-49: SPConnection(tenant_id, client_id, client_secret).
NewConnection(tenant_id, client_id, client_secret) ==
    LET missing == Falsy(tenant_id) \/ Falsy(client_id) \/ Falsy(client_secret)
    IN  [conn |-> [tenant_id |-> tenant_id, client_id |-> client_id,
                   client_secret |-> client_secret, constructed |-> ~missing],
         raised |-> IF missing THEN Raise("RvspConfigError", 0)
                    ELSE NoException]

----------------------------------------------------------------------------
(* The request log *)

NoRange == <<>>

\* One HTTP exchange: what was sent and the status that came back.
Request(req, path, url, range, content_length, expected, status) ==
    [req |-> req, path |-> path, url |-> url, range |-> range,
     content_length |-> content_length, expected |-> expected,
     status |-> status, resp |-> NoneValue]

Answered(entry, value) == [entry EXCEPT !.resp = value]

----------------------------------------------------------------------------
(* SharePointSite *)

SiteId == "site-1"

NewSite == [site_id |-> None, drive_cache |-> <<>>]

FaultStatuses == {401, 403, 409, 500, NoAnswer}

\* site.py:45-61.  tok: whether get_access_token yields a token; st: the
\* status of the answer to GET /sites/{hostname}:{path}.
EnsureSiteId(s, tok, st) ==
    IF s.site_id # None
    THEN [site |-> s, raised |-> NoException, value |-> s.site_id, sent |-> <<>>]
    ELSE IF ~tok
    THEN [site |-> s, raised |-> Raise("RvspConfigError", 0), value |-> None,
          sent |-> <<>>]
    ELSE LET sent == <<Request("GET_site", SitePath, None, NoRange, -1,
                               DefaultExpected, st)>>
             r == GraphRequest(DefaultExpected, FALSE,
                               [status |-> st, json |-> TRUE, body |-> TextBody])
         IN  IF r.raised # NoException
             THEN [site |-> s, raised |-> ExceptGraphError(r.raised),
                   value |-> None, sent |-> sent]
             ELSE [site |-> [s EXCEPT !.site_id = SiteId],
                   raised |-> NoException, value |-> SiteId, sent |-> sent]

\* Mutant: the last drive of the listing that is named lib.
FirstDriveIn_Last(drives, lib) ==
    LET hits == {i \in 1..Len(drives) : drives[i].name = lib}
    IN  IF hits = {} THEN None
        ELSE drives[CHOOSE i \in hits : \A j \in hits : i >= j].id

\* The id of the first drive of the listing drives that is named lib.
FirstDriveIn(drives, lib) ==
    LET hits == {i \in 1..Len(drives) : drives[i].name = lib}
    IN  IF hits = {} THEN None
        ELSE drives[CHOOSE i \in hits : \A j \in hits : i <= j].id

\* The id of the first drive, in listing order, named lib.
FirstDrive(lib) == FirstDriveIn(Drives, lib)

\* sep.join(strs)
RECURSIVE Join(_, _)
Join(strs, sep) ==
    IF strs = <<>> THEN ""
    ELSE IF Len(strs) = 1 THEN strs[1]
    ELSE strs[1] \o sep \o Join(Tail(strs), sep)

\* Mutant: the names are listed last to first.
AvailableDrives_Reversed(drives) ==
    Join([i \in 1..Len(drives) |-> drives[Len(drives) + 1 - i].name], ", ")

\* site.py:86
AvailableDrives(drives) ==
    Join([i \in 1..Len(drives) |-> drives[i].name], ", ")

\* site.py:39, the site of the class's example.
Hostname == "domain.sharepoint.com"
NormalizeSitePath == "/" \o Join(SitePath, "/")

\* site.py:87-90
DriveNotFound(lib, drives) ==
    [exc |-> "SharePointNotFoundError", status |-> 0,
     message |-> "Drive '" \o lib \o "' not found on site " \o Hostname
                 \o NormalizeSitePath \o ". Available drives: "
                 \o AvailableDrives(drives)]

\* Mutant: the cache is never hit.
CachedDrive_Miss(s, lib) == None

\* site.py:69-70: the cached id of lib, None without one.
CachedDrive(s, lib) ==
    IF lib \in DOMAIN s.drive_cache THEN s.drive_cache[lib] ELSE None

\* Mutant: the entry written replaces the whole cache.
CacheDrive_Only(s, lib, id) == [s EXCEPT !.drive_cache = (lib :> id)]

\* site.py:83: self._drive_cache[lib] = d["id"]
CacheDrive(s, lib, id) == [s EXCEPT !.drive_cache = (lib :> id) @@ @]

\* site.py:63-90, on a remote whose drives listing is drives.  tok1/st1 feed
\* _ensure_site_id, tok2/st2 the drives listing.
GetDriveIdIn(s, lib, tok1, st1, tok2, st2, drives) ==
    IF CachedDrive(s, lib) # None
    THEN [site |-> s, raised |-> NoException, value |-> CachedDrive(s, lib),
          sent |-> <<>>]
    ELSE LET r1 == EnsureSiteId(s, tok1, st1) IN
         IF r1.raised # NoException THEN r1
         ELSE IF ~tok2
         THEN [r1 EXCEPT !.raised = Raise("RvspConfigError", 0), !.value = None]
         ELSE LET sent == r1.sent \o
                          <<Request("GET_drives", <<r1.value>>, None, NoRange,
                                    -1, DefaultExpected, st2)>>
                  r2 == GraphRequest(DefaultExpected, FALSE,
                            [status |-> st2, json |-> TRUE, body |-> TextBody])
              IN  IF r2.raised # NoException
                  THEN [site |-> r1.site, raised |-> ExceptGraphError(r2.raised),
                        value |-> None, sent |-> sent]
                  ELSE IF FirstDriveIn(drives, lib) = None
                  THEN [site |-> r1.site, raised |-> DriveNotFound(lib, drives),
                        value |-> None, sent |-> sent]
                  ELSE [site |-> CacheDrive(r1.site, lib,
                                            FirstDriveIn(drives, lib)),
                        raised |-> NoException,
                        value |-> FirstDriveIn(drives, lib), sent |-> sent]

\* site.py:63-90, on the remote whose drives are Drives.
GetDriveId(s, lib, tok1, st1, tok2, st2) ==
    GetDriveIdIn(s, lib, tok1, st1, tok2, st2, Drives)

----------------------------------------------------------------------------
(* SharepointDocument *)

NonePath == <<None>>

\* document.py:41-49: a Document constructed for upload.
NewDocument ==
    [url |-> NonePath, library |-> None, drive_id |-> None,
     item_id |-> None, item_path |-> NonePath, file |-> NoneValue]

\* document.py:61-63
LibraryName(d) == IF Falsy(d.library) THEN DefaultLibrary ELSE d.library

\* document.py:209-215
ServerRelativeFromPath(d, path) == SitePath \o <<LibraryName(d)>> \o path

\* document.py:572-612, for the listing item {id: "item-old", name: "old.bin",
\* parentReference: {path: "/drives/d/root:/"}} and no library or drive_id.
OldItem == Dict("item-old", Absent)
ListedDocument ==
    [NewDocument EXCEPT !.file = OldItem, !.item_id = OldItem.id,
                        !.item_path = <<"old.bin">>,
                        !.url = ServerRelativeFromPath(NewDocument, <<"old.bin">>)]

\* Mutant: the item goes to the root of the library.
ItemPath_NameOnly(folder, name) == <<name>>

\* document.py:337
ItemPath(folder, name) == IF folder # <<>> THEN folder \o <<name>> ELSE <<name>>

\* document.py:368-371: the assignments run in order, and resp_json["id"]
\* raises on a Response handle (TypeError) or a dict without "id" (KeyError)
\* after self.file was assigned.
BindUploaded(d, resp_json, path) ==
    LET d1 == [d EXCEPT !.file = resp_json] IN
    IF resp_json.kind # "dict"
    THEN [doc |-> d1, raised |-> Raise("TypeError", 0)]
    ELSE IF resp_json.id = Absent
    THEN [doc |-> d1, raised |-> Raise("KeyError", 0)]
    ELSE [doc |-> [d1 EXCEPT !.item_id = resp_json.id, !.item_path = path,
                             !.url = ServerRelativeFromPath(d1, path)],
          raised |-> NoException]

----------------------------------------------------------------------------
(* State *)

VARIABLES
    site,            \* SharePointSite: _site_id, _drive_cache
    doc,             \* SharepointDocument: url, library, _drive_id, _item_id, _item_path, file
    remote,          \* the folder paths that exist in the drive
    pc,              \* where the upload() call stands
    sp_path,         \* upload(): argument sp_path, as a path string
    file,            \* upload(): argument file (LocalFile): name, size
    chunk_size,      \* upload(): argument chunk_size
    folder,          \* upload(): folder; _ensure_folder_path(): parts
    seg,             \* _ensure_folder_path(): index of the segment at hand
    item_path,       \* upload(): item_path
    file_size,       \* _upload_large_file_stream(): file_size
    bytes_uploaded,  \* _upload_large_file_stream(): bytes_uploaded
    upload_url,      \* _upload_large_file_stream(): upload_url
    final_item,      \* _upload_large_file_stream(): final_item
    fpos,            \* _upload_large_file_stream(): read position of f
    reqs,            \* the HTTP exchanges of the call, in order
    result,          \* how the call ended: returned value or raised exception
    doc_before,      \* the Document when upload() was called
    remote_files,    \* the paths in the drive that are files
    conn,            \* SPConnection: tenant_id, client_id, client_secret
    call,            \* the operation called last, with its arguments
    out,             \* what that call did: exception, value, requests sent
    hist,            \* the calls on the Site that returned so far
    threads          \* get_drive_id(): the frame of each thread in the call

args   == <<sp_path, file, chunk_size>>
walk   == <<folder, seg, item_path>>
stream == <<file_size, bytes_uploaded, upload_url, final_item, fpos>>
\* The state beside one upload() call: the connection, and the calls made
\* on it, on the Site and on the Document outside upload().
aux    == <<remote_files, conn, call, out, hist, threads>>
vars   == <<site, doc, remote, pc, args, walk, stream, reqs, result, doc_before,
            aux>>

NoResult      == [state |-> "none", exc |-> "none", status |-> 0, value |-> NonePath]
Returned(v)   == [state |-> "returned", exc |-> "none", status |-> 0, value |-> v]
Raised(e)     == [state |-> "raised", exc |-> e.exc, status |-> e.status,
                  value |-> NonePath]

\* auth.py:42-49: a connection constructed with its three credentials.
Connected == [tenant_id |-> "tenant", client_id |-> "client",
              client_secret |-> "secret", constructed |-> TRUE]

NoCall    == [op |-> "none"]
NoOutcome == [raised |-> NoException, value |-> None, sent |-> <<>>,
              acquired |-> 0]

\* Nothing was called yet beside upload(); the drive holds no file.
AuxInit ==
    /\ remote_files = {}
    /\ conn = Connected
    /\ call = NoCall
    /\ out = NoOutcome
    /\ hist = {}
    /\ threads = <<>>

\* No upload() call is under way.
UploadIdle ==
    /\ pc = "idle"
    /\ sp_path = <<>>
    /\ file = [name |-> FileName, size |-> 0]
    /\ chunk_size = 10 * MiB
    /\ folder = <<>>
    /\ seg = 0
    /\ item_path = NonePath
    /\ file_size = 0
    /\ bytes_uploaded = 0
    /\ upload_url = None
    /\ final_item = NoneValue
    /\ fpos = 0
    /\ reqs = <<>>
    /\ result = NoResult

Init ==
    /\ site = NewSite
    /\ doc \in {NewDocument, ListedDocument}
    /\ remote \in {{}, {<<"inv">>}}
    /\ AuxInit
    /\ pc = "idle"
    /\ sp_path = <<>>
    /\ file = [name |-> FileName, size |-> 0]
    /\ chunk_size = 10 * MiB
    /\ folder = <<>>
    /\ seg = 0
    /\ item_path = NonePath
    /\ file_size = 0
    /\ bytes_uploaded = 0
    /\ upload_url = None
    /\ final_item = NoneValue
    /\ fpos = 0
    /\ reqs = <<>>
    /\ result = NoResult
    /\ doc_before = doc

\* The call ends with exception e.
Fail(e) ==
    /\ result' = Raised(e)
    /\ pc' = "done"

----------------------------------------------------------------------------
(* upload(), document.py:319-373 *)

\* The call upload(sp_path, file, chunk_size) is made.
Upload ==
    /\ pc = "idle"
    /\ \E p \in SpPaths, size \in FileSizes, c \in ChunkSizes :
          /\ size > small_file_threshold => NumChunks(size, c) <= MaxChunks
          /\ sp_path' = p
          /\ file' = [name |-> FileName, size |-> size]
          /\ chunk_size' = c
    /\ doc_before' = doc
    /\ pc' = "ensure_drive_id"
    /\ UNCHANGED <<site, doc, remote, walk, stream, reqs, result>>
    /\ UNCHANGED aux

\* document.py:332 and 87-90: drive_id = self._ensure_drive_id()
EnsureDriveId ==
    /\ pc = "ensure_drive_id"
    /\ IF doc.drive_id # None
       THEN /\ pc' = "get_access_token"
            /\ UNCHANGED <<site, doc, reqs, result>>
       ELSE \E tok1, tok2 \in BOOLEAN,
               st1, st2 \in {200} \cup FaultStatuses \cup {404} :
              LET r == GetDriveId(site, LibraryName(doc), tok1, st1, tok2, st2) IN
              /\ site' = r.site
              /\ reqs' = reqs \o r.sent
              /\ IF r.raised # NoException
                 THEN Fail(r.raised) /\ UNCHANGED doc
                 ELSE /\ doc' = [doc EXCEPT !.drive_id = r.value]
                      /\ pc' = "get_access_token"
                      /\ UNCHANGED result
    /\ UNCHANGED <<remote, args, walk, stream, doc_before>>
    /\ UNCHANGED aux

\* document.py:333: token = self.connection.get_access_token(), auth.py:69-81
GetAccessToken ==
    /\ pc = "get_access_token"
    /\ \E tok \in BOOLEAN :
          IF tok THEN pc' = "ensure_folder" /\ UNCHANGED result
                 ELSE Fail(Raise("RvspConfigError", 0))
    /\ UNCHANGED <<site, doc, remote, args, walk, stream, reqs, doc_before>>
    /\ UNCHANGED aux

\* A path string is the sequence of its pieces: the separator "/", a run of
\* whitespace " ", or a run of other characters.
RECURSIVE LStrip(_, _)
LStrip(str, chars) ==
    IF str # <<>> /\ str[1] \in chars THEN LStrip(Tail(str), chars) ELSE str

RECURSIVE RStrip(_, _)
RStrip(str, chars) ==
    IF str # <<>> /\ str[Len(str)] \in chars
    THEN RStrip(SubSeq(str, 1, Len(str) - 1), chars) ELSE str

\* str.strip(chars)
Strip(str, chars) == RStrip(LStrip(str, chars), chars)

\* str.split("/"): the strings between the separators, in order.
RECURSIVE Split(_)
Split(str) ==
    LET seps == {i \in 1..Len(str) : str[i] = "/"} IN
    IF seps = {} THEN <<Join(str, "")>>
    ELSE LET i == CHOOSE k \in seps : \A j \in seps : k <= j
         IN  <<Join(SubSeq(str, 1, i - 1), "")>>
             \o Split(SubSeq(str, i + 1, Len(str)))

IsComponent(c) == c \notin {"", "."}

\* pathlib: PurePosixPath(str).parts, the root first when str has one.
PathParts(str) ==
    LET root == IF Len(str) >= 1 /\ str[1] = "/"
                THEN IF Len(str) >= 2 /\ str[2] = "/"
                        /\ ~(Len(str) >= 3 /\ str[3] = "/")
                     THEN <<"//">> ELSE <<"/">>
                ELSE <<>>
    IN  root \o SelectSeq(Split(str), IsComponent)

\* "/".join(parts), as a path string.
RECURSIVE JoinSlash(_)
JoinSlash(parts) ==
    IF parts = <<>> THEN <<>>
    ELSE LET head == IF parts[1] = "/" THEN <<"/">>
                     ELSE IF parts[1] = "//" THEN <<"/", "/">>
                     ELSE <<parts[1]>>
         IN  IF Len(parts) = 1 THEN head
             ELSE head \o <<"/">> \o JoinSlash(Tail(parts))

\* document.py:310-315: the folder_path ensure_folder(path) hands on, <<>>
\* when it returns "" at once.
FolderPath(path) ==
    LET stripped == Strip(Strip(path, {"/"}), {" "}) IN
    IF stripped = <<>> THEN <<>> ELSE JoinSlash(PathParts(stripped))

\* document.py:162-166: the parts _ensure_folder_path walks, <<>> when it
\* returns "" at once.
FolderParts(folder_path) ==
    LET stripped == Strip(folder_path, {"/"}) IN
    IF stripped = <<>> THEN <<>> ELSE Split(stripped)

\* document.py:336 and 299-317: ensure_folder(sp_path) up to the call of
\* _ensure_folder_path; with an empty folder it returns "" at once, and
\* upload() goes on to line 337.
EnsureFolder ==
    /\ pc = "ensure_folder"
    /\ \E tok \in BOOLEAN :
          IF ~tok
          THEN Fail(Raise("RvspConfigError", 0)) /\ UNCHANGED walk
          ELSE IF FolderParts(FolderPath(sp_path)) = <<>>
          THEN /\ folder' = <<>>
               /\ item_path' = ItemPath(<<>>, file.name)
               /\ pc' = "transfer"
               /\ UNCHANGED <<seg, result>>
          ELSE /\ folder' = FolderParts(FolderPath(sp_path))
               /\ seg' = 1
               /\ pc' = "ensure_folder_path"
               /\ UNCHANGED <<item_path, result>>
    /\ UNCHANGED <<site, doc, remote, args, stream, reqs, doc_before>>
    /\ UNCHANGED aux

\* Mutant: any error status of the probe leads to the create.
Probed_AnyError(r) ==
    IF r.raised = NoException THEN "found"
    ELSE IF r.raised.exc = "GraphError" THEN "missing" ELSE "failed"

\* Mutant: the create follows the probe whatever the probe found.
Probed_Ignored(r) ==
    IF r.raised = NoException \/ r.raised.exc = "GraphError" THEN "missing"
    ELSE "failed"

\* document.py:173-176 and 203-205: what the probe, with outcome r, says of
\* the folder.
Probed(r) ==
    IF r.raised = NoException THEN "found"
    ELSE IF r.raised.exc = "GraphError" /\ r.raised.status = 404 THEN "missing"
    ELSE "failed"

\* Mutant: every folder is created in the root of the drive.
ParentPath_Root(current_path) == <<>>

\* document.py:178: the path without its last segment.
ParentPath(current_path) == SubSeq(current_path, 1, Len(current_path) - 1)

\* Mutant: the create replaces what has the name.
CreateFolder_Replace(parent_path, part, status) ==
    Request("POST_children", parent_path, None, NoRange, -1, {201}, status)
        @@ [name |-> part, conflictBehavior |-> "replace"]

\* document.py:179-198: the create of folder part in the children of
\* parent_path (of the root when parent_path is empty), answered status.
CreateFolder(parent_path, part, status) ==
    Request("POST_children", parent_path, None, NoRange, -1, {201}, status)
        @@ [name |-> part, conflictBehavior |-> "fail"]

\* document.py:169-205: one round of the loop of _ensure_folder_path, for the
\* segment seg: the probe and, after a 404, the create.  After the last
\* segment the path is returned and upload() goes on to line 337.  The
\* probe finds whatever item has the path, folder or file; nothing is
\* created under a file, or (conflictBehavior "fail") where an item is.
EnsureFolderPathStep ==
    /\ pc = "ensure_folder_path"
    /\ LET current_path == SubSeq(folder, 1, seg)
           parent_path  == ParentPath(current_path)
           truth        == IF current_path \in remote \cup remote_files
                           THEN 200 ELSE 404
           next == /\ IF seg = Len(folder)
                      THEN /\ item_path' = ItemPath(folder, file.name)
                           /\ pc' = "transfer"
                           /\ UNCHANGED seg
                      ELSE /\ seg' = seg + 1
                           /\ UNCHANGED <<item_path, pc>>
                   /\ UNCHANGED <<result, folder>>
       IN  \E st \in {truth} \cup FaultStatuses :
             LET probe == Request("GET_item", current_path, None, NoRange, -1,
                                  DefaultExpected, st)
                 r == GraphRequest(DefaultExpected, FALSE,
                          [status |-> st, json |-> TRUE, body |-> TextBody])
             IN  IF Probed(r) = "found"
                 THEN /\ reqs' = Append(reqs, probe)
                      /\ UNCHANGED remote
                      /\ next
                 ELSE IF Probed(r) = "missing"
                 THEN \E st2 \in {201} \cup FaultStatuses \cup {404} :
                        LET create == CreateFolder(parent_path, folder[seg], st2)
                            r2 == GraphRequest({201}, FALSE,
                                     [status |-> st2, json |-> TRUE,
                                      body |-> TextBody])
                        IN  /\ st2 = 201 =>
                                  /\ parent_path \notin remote_files
                                  /\ current_path \notin remote \cup remote_files
                            /\ reqs' = reqs \o <<probe, create>>
                            /\ IF r2.raised = NoException
                               THEN /\ remote' = remote \cup {current_path}
                                    /\ next
                               ELSE /\ Fail(ExceptGraphError(r2.raised))
                                    /\ UNCHANGED <<remote, walk>>
                 ELSE /\ reqs' = Append(reqs, probe)
                      /\ Fail(ExceptGraphError(r.raised))
                      /\ UNCHANGED <<remote, walk>>
    /\ UNCHANGED <<site, doc, args, stream, doc_before>>
    /\ UNCHANGED aux

\* Mutant: a file of exactly the threshold goes the large-file way.
IsSmallFile_Below(size) == size < small_file_threshold

\* document.py:342
IsSmallFile(size) == size <= small_file_threshold

\* document.py:368-373: bind the Document to resp_json and return the url.
BindAndReturn(resp_json) ==
    LET b == BindUploaded(doc, resp_json, item_path) IN
    /\ doc' = b.doc
    /\ pc' = "done"
    /\ result' = IF b.raised # NoException THEN Raised(b.raised)
                 ELSE Returned(b.doc.url)

\* document.py:342-353 and 363-373: the small-file path, one PUT .../content.
UploadSmall ==
    /\ pc = "transfer"
    /\ IsSmallFile(file.size)
    /\ \E ans \in Answers :
          LET r == GraphRequest({200, 201}, FALSE, ans)
              put == Request("PUT_content", item_path, None, NoRange, -1,
                             {200, 201}, ans.status)
          IN  /\ reqs' = Append(reqs, Answered(put, r.value))
              /\ IF r.raised # NoException
                 THEN Fail(ExceptGraphError(r.raised)) /\ UNCHANGED doc
                 ELSE BindAndReturn(r.value)
    /\ UNCHANGED <<site, remote, args, walk, stream, doc_before>>
    /\ UNCHANGED aux

\* document.py:354-361 and 229-256: the large-file path is entered, the
\* upload session is created and the file is opened.
CreateUploadSession ==
    /\ pc = "transfer"
    /\ ~IsSmallFile(file.size)
    /\ file_size' = file.size
    /\ bytes_uploaded' = 0
    /\ final_item' = NoneValue
    /\ fpos' = 0
    /\ \E ans \in Answers :
          LET r == GraphRequest({200}, FALSE, ans)
              post == Request("POST_createUploadSession", item_path, None,
                              NoRange, -1, {200}, ans.status)
          IN  /\ reqs' = Append(reqs, Answered(post, r.value))
              /\ IF r.raised # NoException
                 THEN Fail(ExceptGraphError(r.raised)) /\ UNCHANGED upload_url
                 ELSE IF r.value.kind # "dict"
                 THEN Fail(Raise("TypeError", 0)) /\ UNCHANGED upload_url
                 ELSE IF r.value.uploadUrl = Absent
                 THEN Fail(Raise("KeyError", 0)) /\ UNCHANGED upload_url
                 ELSE /\ upload_url' = r.value.uploadUrl
                      /\ pc' = "chunks"
                      /\ UNCHANGED result
    /\ UNCHANGED <<site, doc, remote, args, walk, doc_before>>
    /\ UNCHANGED aux

\* Mutant: every chunk is taken to be chunk_size bytes long.
ReadLen_Full(size, pos, n) == IF pos < size THEN n ELSE 0

\* document.py:261: chunk = f.read(chunk_size), from the read position.
ReadLen(size, pos, n) == Min(n, size - pos)

\* Mutant: the range end is taken one past the last byte of the chunk.
ContentRange_EndExclusive(start, chunk_len, total) ==
    <<start, start + chunk_len, total>>

\* document.py:266-267 and 271
ContentRange(start, chunk_len, total) == <<start, start + chunk_len - 1, total>>

\* Mutant: the first response with an id is kept.
NextFinalItem_First(current, resp) ==
    IF current.kind = "None" /\ resp.kind = "dict" /\ resp.id # Absent
    THEN resp ELSE current

\* document.py:285-286
NextFinalItem(current, resp) ==
    IF resp.kind = "dict" /\ resp.id # Absent THEN resp ELSE current

\* Mutant: bytes_uploaded = end instead of bytes_uploaded += chunk_len.
NextBytesUploaded_End(uploaded, chunk_len) == uploaded + chunk_len - 1

\* document.py:283
NextBytesUploaded(uploaded, chunk_len) == uploaded + chunk_len

\* document.py:280
ChunkExpected == {200, 201, 202}

\* Mutant: a rejected chunk is skipped and the loop goes on.
ChunkRejected_Skip(e, chunk_len) ==
    /\ fpos' = fpos + chunk_len
    /\ UNCHANGED <<pc, result, bytes_uploaded, final_item>>

\* Mutant: a rejected chunk is sent again (the read position is moved back).
ChunkRejected_Retry(e, chunk_len) ==
    /\ fpos' = fpos
    /\ UNCHANGED <<pc, result, bytes_uploaded, final_item>>

\* document.py:274-281 and 363-366: graph_request raised e on a chunk PUT of
\* chunk_len bytes; nothing in the loop catches it, the file is closed, and
\* upload()'s handler translates a GraphError.
ChunkRejected(e, chunk_len) ==
    /\ Fail(ExceptGraphError(e))
    /\ fpos' = fpos + chunk_len
    /\ UNCHANGED <<bytes_uploaded, final_item>>

\* document.py:260-291: one round of the chunk loop with a chunk read.
UploadChunk ==
    /\ pc = "chunks"
    /\ LET chunk_len == ReadLen(file.size, fpos, chunk_size) IN
       /\ chunk_len > 0
       /\ \E ans \in Answers :
            LET r == GraphRequest(ChunkExpected, FALSE, ans)
                put == Request("PUT_uploadUrl", item_path, upload_url,
                               ContentRange(bytes_uploaded, chunk_len, file_size),
                               chunk_len, ChunkExpected, ans.status)
            IN  /\ reqs' = Append(reqs, Answered(put, r.value))
                /\ IF r.raised # NoException
                   THEN ChunkRejected(r.raised, chunk_len)
                   ELSE /\ fpos' = fpos + chunk_len
                        /\ bytes_uploaded' =
                               NextBytesUploaded(bytes_uploaded, chunk_len)
                        /\ final_item' = NextFinalItem(final_item, r.value)
                        /\ UNCHANGED <<pc, result>>
    /\ UNCHANGED <<site, doc, remote, args, walk, file_size, upload_url, doc_before>>
    /\ UNCHANGED aux

\* Mutant: the loop is left as soon as a response carried an item id.
FinishLargeUpload_OnItem ==
    /\ pc = "chunks"
    /\ ReadLen(file.size, fpos, chunk_size) = 0 \/ final_item # NoneValue
    /\ IF final_item = NoneValue
       THEN Fail(Raise("RuntimeError", 0)) /\ UNCHANGED doc
       ELSE BindAndReturn(final_item)
    /\ UNCHANGED <<site, remote, args, walk, stream, reqs, doc_before>>
    /\ UNCHANGED aux

\* Mutant: the check of final_item is missing.
FinishLargeUpload_NoCheck ==
    /\ pc = "chunks"
    /\ ReadLen(file.size, fpos, chunk_size) = 0
    /\ BindAndReturn(final_item)
    /\ UNCHANGED <<site, remote, args, walk, stream, reqs, doc_before>>
    /\ UNCHANGED aux

\* document.py:262-263, 293-296 and 368-373: the source is exhausted, the
\* loop ends; without a final item the call raises, with one upload() binds
\* the Document to it.
FinishLargeUpload ==
    /\ pc = "chunks"
    /\ ReadLen(file.size, fpos, chunk_size) = 0
    /\ IF final_item = NoneValue
       THEN Fail(Raise("RuntimeError", 0)) /\ UNCHANGED doc
       ELSE BindAndReturn(final_item)
    /\ UNCHANGED <<site, remote, args, walk, stream, reqs, doc_before>>
    /\ UNCHANGED aux

----------------------------------------------------------------------------

Next ==
    \/ Upload
    \/ EnsureDriveId
    \/ GetAccessToken
    \/ EnsureFolder
    \/ EnsureFolderPathStep
    \/ UploadSmall
    \/ CreateUploadSession
    \/ UploadChunk
    \/ FinishLargeUpload

Spec == Init /\ [][Next]_vars

----------------------------------------------------------------------------
(* Reading the request log *)

IsChunkPut(e)  == e.req = "PUT_uploadUrl"
IsTransfer(e)  == e.req \in {"PUT_content", "POST_createUploadSession",
                             "PUT_uploadUrl"}
Accepted(e)    == e.status \in e.expected
HasItemId(v)   == v.kind = "dict" /\ v.id # Absent

\* The chunk PUTs of the call, in the order they were sent.
ChunkPuts == SelectSeq(reqs, IsChunkPut)
\* The content requests of the call (PUT content, session POST, chunk PUTs).
Transfers == SelectSeq(reqs, IsTransfer)

\* The bytes of the first n chunk PUTs that were accepted.
RECURSIVE AcceptedBytes(_, _)
AcceptedBytes(puts, n) ==
    IF n = 0 THEN 0
    ELSE AcceptedBytes(puts, n - 1)
         + (IF puts[n].status \in {200, 201, 202}
            THEN puts[n].content_length ELSE 0)

Last(seq) == seq[Len(seq)]

----------------------------------------------------------------------------
(* Claims *)

\* C1: every chunk PUT carries Content-Length = the length of the chunk read
\* (chunk_size bytes, or what is left of the file) and Content-Range
\* start-(start+len-1)/total, where start is the sum of the lengths of the
\* chunks accepted before it and total is the size of the file.
C1_ChunkHeaders ==
    \A i \in 1..Len(ChunkPuts) :
        LET e     == ChunkPuts[i]
            start == AcceptedBytes(ChunkPuts, i - 1)
            len   == Min(chunk_size, file.size - start)
        IN  /\ len >= 1
            /\ e.content_length = len
            /\ e.range = <<start, start + len - 1, file.size>>

\* A third chunk was sent, shorter than chunk_size.
C1_Witness ==
    /\ Len(ChunkPuts) = 3
    /\ ChunkPuts[3].content_length < chunk_size
    /\ ChunkPuts[3].range[1] > 0

\* What C2 asks of every step of the call.
C2_Step ==
    /\ (pc # "chunks" /\ pc' = "chunks") => bytes_uploaded' = 0
    /\ bytes_uploaded' >= bytes_uploaded
    /\ (bytes_uploaded' # bytes_uploaded \/
        (Len(reqs') = Len(reqs) + 1 /\ IsChunkPut(Last(reqs'))
                                    /\ Last(reqs').status \in {200, 201, 202}))
          => /\ Len(reqs') = Len(reqs) + 1
             /\ IsChunkPut(Last(reqs'))
             /\ Last(reqs').status \in {200, 201, 202}
             /\ bytes_uploaded' = bytes_uploaded + Last(reqs').content_length
    /\ (pc = "chunks" /\ pc' = "done" /\ reqs' = reqs)
          => bytes_uploaded = file.size /\ bytes_uploaded' = bytes_uploaded

\* C2: bytes_uploaded is 0 when the chunk loop is entered, never decreases,
\* changes only in the step of an accepted chunk PUT and then by that chunk's
\* length, and equals file_size when the loop ends on an exhausted source.
C2_BytesUploaded == [][C2_Step]_vars

\* The loop of a three-chunk session ended with everything uploaded.
C2_Witness ==
    /\ pc = "done"
    /\ Len(ChunkPuts) = 3
    /\ \A i \in 1..3 : Accepted(ChunkPuts[i])
    /\ bytes_uploaded = file.size
    /\ bytes_uploaded > chunk_size

\* C3: the chunk PUTs are sent in offset order, one after the other: the
\* first range starts at 0, each later one starts at the end of the one
\* before + 1 and is sent only after that one was accepted, and the ranges of
\* a session that ran to the end of the source end at file size - 1.
C3_ChunkOrder ==
    /\ \A i \in 1..Len(ChunkPuts) :
          /\ ChunkPuts[i].range[1] <= ChunkPuts[i].range[2]
          /\ IF i = 1 THEN ChunkPuts[i].range[1] = 0
             ELSE /\ Accepted(ChunkPuts[i - 1])
                  /\ ChunkPuts[i].range[1] = ChunkPuts[i - 1].range[2] + 1
    /\ (pc = "done" /\ ~IsSmallFile(file.size)
        /\ (result.state = "returned" \/ result.exc = "RuntimeError"))
          => /\ Len(ChunkPuts) >= 1
             /\ Accepted(Last(ChunkPuts))
             /\ Last(ChunkPuts).range[2] = file.size - 1

\* A session of three chunks was completed.
C3_Witness ==
    /\ pc = "done"
    /\ result.state = "returned"
    /\ Len(ChunkPuts) = 3
    /\ ChunkPuts[3].range[2] = file.size - 1

\* C4: a 12 MiB file uploaded with chunk_size 5 MiB: the content requests of
\* a successful call are one createUploadSession POST followed by three chunk
\* PUTs with the ranges 0-5242879, 5242880-10485759 and 10485760-12582911 of
\* 12582912, nothing in between; and when the last response carries the item
\* id, its body is the metadata stored in the Document.
C4_TwelveMiB ==
    (file.size = 12582912 /\ chunk_size = 5242880
     /\ pc = "done" /\ result.state = "returned")
      => /\ Len(Transfers) = 4
         /\ SubSeq(reqs, Len(reqs) - 3, Len(reqs)) = Transfers
         /\ Transfers[1].req = "POST_createUploadSession"
         /\ \A i \in 2..4 : /\ Transfers[i].req = "PUT_uploadUrl"
                            /\ Transfers[i].url = Transfers[1].resp.uploadUrl
         /\ Transfers[2].range = <<0, 5242879, 12582912>>
         /\ Transfers[3].range = <<5242880, 10485759, 12582912>>
         /\ Transfers[4].range = <<10485760, 12582911, 12582912>>
         /\ Transfers[2].content_length = 5242880
         /\ Transfers[3].content_length = 5242880
         /\ Transfers[4].content_length = 2097152
         /\ HasItemId(Transfers[4].resp)
               => /\ doc.file = Transfers[4].resp
                  /\ doc.item_id = Transfers[4].resp.id

\* The 12 MiB upload returned, bound to the item of the third response.
C4_Witness ==
    /\ file.size = 12582912 /\ chunk_size = 5242880
    /\ pc = "done" /\ result.state = "returned"
    /\ Len(ChunkPuts) = 3
    /\ ~HasItemId(ChunkPuts[1].resp) /\ ~HasItemId(ChunkPuts[2].resp)
    /\ ChunkPuts[3].resp.id = "item-b"
    /\ doc.item_id = "item-b"

\* The exception upload() raises for a content request answered with an
\* unexpected status.
RaisedFor(status) ==
    CASE status = 404         -> "SharePointNotFoundError"
      [] status \in {401, 403} -> "SharePointPermissionError"
      [] status = 409          -> "SharePointConflictError"
      [] status = 0            -> "RequestException"
      [] OTHER                 -> "GraphError"

\* C5: a chunk PUT answered with a status outside {200,201,202} is the last
\* request of the call, the call ends with the translated error (or with the
\* transport error, with that status), and no two chunk PUTs of a call cover
\* a common byte.
C5_NoResend ==
    /\ \A i \in 1..Len(reqs) :
          (IsChunkPut(reqs[i]) /\ reqs[i].status \notin {200, 201, 202})
             => /\ i = Len(reqs)
                /\ pc = "done"
                /\ result.state = "raised"
                /\ result.exc = RaisedFor(reqs[i].status)
                /\ result.exc = "GraphError" => result.status = reqs[i].status
    /\ \A i, j \in 1..Len(ChunkPuts) :
          i < j => ChunkPuts[i].range[2] < ChunkPuts[j].range[1]

\* The second chunk was answered 404 and the call raised NotFound.
C5_Witness ==
    /\ Len(ChunkPuts) = 2
    /\ ChunkPuts[2].status = 404
    /\ result.exc = "SharePointNotFoundError"

NoChunkHasItemId == \A i \in 1..Len(ChunkPuts) : ~HasItemId(ChunkPuts[i].resp)

Bound(d) == <<d.url, d.item_id, d.item_path, d.file>>

\* What C6 asks of every step of the call.
C6_Step ==
    (/\ pc = "chunks"
     /\ AcceptedBytes(ChunkPuts, Len(ChunkPuts)) = file.size
     /\ NoChunkHasItemId)
      => /\ pc' = "done"
         /\ result'.state = "raised"
         /\ result'.exc = "RuntimeError"
         /\ reqs' = reqs
         /\ Bound(doc') = Bound(doc_before)

\* C6: once every byte of the file was accepted and no chunk response carried
\* an item id, the next step of the call is its failure with RuntimeError:
\* no request is sent, nothing is returned, and url, item_id, item_path and
\* file of the Document are what they were before the call.
C6_NoFinalItem == [][C6_Step]_vars

\* A two-chunk session on a Document bound before ended without an item.
C6_Witness ==
    /\ pc = "done"
    /\ result.exc = "RuntimeError"
    /\ Len(ChunkPuts) >= 2
    /\ NoChunkHasItemId
    /\ doc_before = ListedDocument
    /\ doc.item_id = "item-old"

\* The body of the last chunk response with an item id.
LastItemResponse ==
    LET with == {i \in 1..Len(ChunkPuts) : HasItemId(ChunkPuts[i].resp)}
    IN  IF with = {} THEN NoneValue
        ELSE ChunkPuts[CHOOSE i \in with : \A j \in with : j <= i].resp

\* C7: the item a large upload returns, and the Document is bound to, is the
\* body of the last chunk response that carried an item id.
C7_LastItemWins ==
    /\ pc = "chunks" => final_item = LastItemResponse
    /\ (pc = "done" /\ result.state = "returned" /\ file.size > 4194304)
          => /\ HasItemId(LastItemResponse)
             /\ doc.file = LastItemResponse
             /\ doc.item_id = LastItemResponse.id

\* Two responses carried different ids and a third, later one none.
C7_Witness ==
    /\ pc = "done" /\ result.state = "returned"
    /\ Len(ChunkPuts) = 3
    /\ ChunkPuts[1].resp.id = "item-a"
    /\ ChunkPuts[2].resp.id = "item-b"
    /\ ~HasItemId(ChunkPuts[3].resp)
    /\ doc.item_id = "item-b"

\* C8 as claimed: after a chunk response with an item id no further chunk
\* PUT is sent, that is, such a response answers the last request of the call.
C8_NoPutAfterItem ==
    \A i \in 1..Len(reqs) :
        (IsChunkPut(reqs[i]) /\ HasItemId(reqs[i].resp)) => i = Len(reqs)

\* C8 as amended: a chunk response with an item id does not end the loop.
\* After it the next chunk PUT is sent exactly when bytes of the source are
\* left; a PUT is never sent after the chunk that ends at file size - 1.
C8_PutUntilExhausted ==
    /\ (pc = "chunks" /\ ~NoChunkHasItemId)
          => /\ (ENABLED UploadChunk) <=> bytes_uploaded < file.size
             /\ (ENABLED FinishLargeUpload) <=> bytes_uploaded = file.size
    /\ \A i \in 1..Len(reqs) :
          (IsChunkPut(reqs[i]) /\ reqs[i].range[2] = file.size - 1)
             => i = Len(reqs)

\* An item id came with the first of three accepted chunks, and the call
\* went through to the end of the source.
C8_Witness ==
    /\ pc = "done" /\ result.state = "returned"
    /\ Len(ChunkPuts) = 3
    /\ HasItemId(ChunkPuts[1].resp)
    /\ ~HasItemId(ChunkPuts[2].resp) /\ ~HasItemId(ChunkPuts[3].resp)

Count(seq, req) == Len(SelectSeq(seq, LAMBDA e : e.req = req))

\* C9: the way of transfer depends on the size alone.  Up to 4 MiB: never a
\* createUploadSession or chunk PUT, at most one PUT .../content, expecting
\* {200,201}, and exactly one when the call returned.  Above 4 MiB: never a
\* PUT .../content, at most one createUploadSession POST, expecting 200, and
\* exactly one when the call returned; every chunk PUT comes after it and
\* goes to the uploadUrl it returned.
C9_Strategy ==
    IF file.size <= 4194304
    THEN /\ Count(reqs, "POST_createUploadSession") = 0
         /\ Count(reqs, "PUT_uploadUrl") = 0
         /\ Count(reqs, "PUT_content") <= 1
         /\ (pc = "done" /\ result.state = "returned")
               => Count(reqs, "PUT_content") = 1
         /\ \A i \in 1..Len(Transfers) : Transfers[i].expected = {200, 201}
    ELSE /\ Count(reqs, "PUT_content") = 0
         /\ Count(reqs, "POST_createUploadSession") <= 1
         /\ (pc = "done" /\ result.state = "returned")
               => Count(reqs, "POST_createUploadSession") = 1
         /\ \A i \in 1..Len(Transfers) :
               IF i = 1
               THEN /\ Transfers[i].req = "POST_createUploadSession"
                    /\ Transfers[i].expected = {200}
               ELSE /\ Transfers[i].req = "PUT_uploadUrl"
                    /\ Transfers[1].status = 200
                    /\ Transfers[i].url = Transfers[1].resp.uploadUrl
                    /\ Transfers[i].url \in UploadUrls

\* A file of 4 MiB was uploaded with one PUT, and one byte more takes a
\* session (the two cases of the witness are two calls).
C9_Witness ==
    /\ pc = "done" /\ result.state = "returned"
    /\ \/ file.size = 4194304 /\ Count(reqs, "PUT_content") = 1
       \/ file.size = 4194305 /\ Count(reqs, "PUT_uploadUrl") = 2

\* C10 as claimed: with a file of exactly 4 MiB upload() can go the small-file
\* way and the large-file way.
C10_BothPathsAtThreshold ==
    (pc = "transfer" /\ file.size = 4194304)
      => (ENABLED UploadSmall) /\ (ENABLED CreateUploadSession)

\* C10 as amended: with a file of exactly 4 MiB upload() goes the small-file
\* way only, with one byte more the large-file way only; on either way a
\* call that returns has stored a JSON object with an id as file and bound
\* item_id to that id, item_path to folder/name and url to the site-relative
\* url of item_path, which it returns.
C10_SameBinding ==
    /\ (pc = "transfer" /\ file.size = 4194304)
          => (ENABLED UploadSmall) /\ ~(ENABLED CreateUploadSession)
    /\ (pc = "transfer" /\ file.size = 4194305)
          => ~(ENABLED UploadSmall) /\ (ENABLED CreateUploadSession)
    /\ (pc = "done" /\ result.state = "returned")
          => /\ doc.file.kind = "dict"
             /\ doc.file.id \in ItemIds
             /\ doc.file = Last(reqs).resp \/ file.size > 4194304
             /\ doc.item_id = doc.file.id
             /\ doc.item_path = sp_path \o <<file.name>>
             /\ doc.url = <<"sites", "Finance", "Documents">> \o doc.item_path
             /\ result.value = doc.url

\* An upload of exactly 4 MiB into a folder returned.
C10_Witness ==
    /\ pc = "done" /\ result.state = "returned"
    /\ file.size = 4194304
    /\ sp_path = <<"inv">>
    /\ doc.item_id = "item-a"

----------------------------------------------------------------------------
(* Calls on the connection: SPConnection(), get_access_token(),            *)
(* graph_request(), and translate_graph_error() on what graph_request      *)
(* raised.  Each call is one step; call holds its arguments, out what it   *)
(* did.                                                                    *)

Credentials   == {None, "", "x"}
GivenTokens   == {None, "tok-given"}
AllStatuses   == Statuses \cup {204, 302}
ExpectedArgs  ==
    { TupleStatus(DefaultExpected), TupleStatus({200, 301, 302}),
      IntStatus(204), IntStatus(201) }
RequestAnswers ==
    [status : AllStatuses, json : BOOLEAN, body : Bodies]
    \cup {[status |-> NoAnswer, json |-> FALSE, body |-> TextBody]}

NotConstructed ==
    [tenant_id |-> None, client_id |-> None, client_secret |-> None,
     constructed |-> FALSE]

InitRequest ==
    /\ site = NewSite
    /\ doc = NewDocument
    /\ remote = {}
    /\ UploadIdle
    /\ doc_before = doc
    /\ remote_files = {}
    /\ conn = NotConstructed
    /\ call = NoCall
    /\ out = NoOutcome
    /\ hist = {}
    /\ threads = <<>>

upload_vars ==
    <<site, doc, remote, pc, args, walk, stream, reqs, result, doc_before>>

\* SPConnection(tenant_id, client_id, client_secret) is constructed.
Construct ==
    /\ \E t, c, s \in Credentials :
          LET r == NewConnection(t, c, s) IN
          /\ conn' = r.conn
          /\ call' = [op |-> "SPConnection", tenant_id |-> t, client_id |-> c,
                      client_secret |-> s]
          /\ out' = [NoOutcome EXCEPT !.raised = r.raised]
    /\ UNCHANGED <<upload_vars, remote_files, hist, threads>>

\* connection.get_access_token() is called.
ConnGetAccessToken ==
    /\ conn.constructed
    /\ \E m \in MsalResults :
          LET t == AccessToken(m) IN
          /\ call' = [op |-> "get_access_token", msal |-> m]
          /\ out' = [raised |-> t.raised, value |-> t.value, sent |-> <<>>,
                     acquired |-> 1]
    /\ UNCHANGED <<upload_vars, remote_files, conn, hist, threads>>

\* connection.graph_request(...) is called.  The call neither reads nor
\* writes what an earlier call left, so one call per behaviour shows all.
ConnGraphRequest ==
    /\ conn.constructed
    /\ call.op \notin {"graph_request", "translate_graph_error"}
    /\ \E e \in ExpectedArgs, tok \in GivenTokens, st \in BOOLEAN,
          m \in MsalResults, ans \in RequestAnswers :
          /\ call' = [op |-> "graph_request", expected_status |-> e,
                      token |-> tok, stream |-> st, msal |-> m, ans |-> ans]
          /\ out' = GraphRequestCall(e, tok, st, m, ans)
    /\ UNCHANGED <<upload_vars, remote_files, conn, hist, threads>>

\* `except GraphError as e: translate_graph_error(target, e)` on what the
\* graph_request call raised.
Translate ==
    /\ call.op = "graph_request"
    /\ out.raised.exc = "GraphError"
    /\ call' = [op |-> "translate_graph_error", e |-> out.raised]
    /\ out' = [out EXCEPT !.raised = TranslateGraphError(out.raised),
                          !.value = NoneValue]
    /\ UNCHANGED <<upload_vars, remote_files, conn, hist, threads>>

NextRequest ==
    \/ Construct
    \/ ConnGetAccessToken
    \/ ConnGraphRequest
    \/ Translate

SpecRequest == InitRequest /\ [][NextRequest]_vars

\* C11: translate_graph_error never returns normally; it raises NotFound for
\* 404, PermissionDenied for 401 and 403, Conflict for 409, each with the
\* error it was given as cause, and for every other status the very error it
\* was given, status and response body as they were.
C11_Translate ==
    call.op = "translate_graph_error" =>
        LET e == call.e IN
        /\ out.raised # NoException
        /\ out.value = NoneValue
        /\ e.status = 404 =>
              /\ out.raised.exc = "SharePointNotFoundError"
              /\ out.raised.cause = e
        /\ e.status \in {401, 403} =>
              /\ out.raised.exc = "SharePointPermissionError"
              /\ out.raised.cause = e
        /\ e.status = 409 =>
              /\ out.raised.exc = "SharePointConflictError"
              /\ out.raised.cause = e
        /\ e.status \notin {401, 403, 404, 409} =>
              /\ out.raised = e
              /\ out.raised.exc = "GraphError"
              /\ out.raised.status = e.status
              /\ out.raised.response_text = e.response_text

\* A 403 with a JSON body was translated.
C11_Witness ==
    /\ call.op = "translate_graph_error"
    /\ call.e.status = 403
    /\ call.e.response_text.kind = "dict"
    /\ out.raised.exc = "SharePointPermissionError"

\* C13: when the status of the answer is outside the expected set (the
\* default 200, 201, 204, or the tuple or the int given), graph_request
\* returns no value: it raises GraphError with that status and the body of
\* the answer, after exactly one HTTP request.
C13_UnexpectedStatus ==
    (/\ call.op = "graph_request"
     /\ out.sent # <<>>
     /\ call.ans.status # NoAnswer
     /\ call.ans.status \notin ExpectedSet(call.expected_status)) =>
        /\ out.raised = GraphError(call.ans.status, call.ans.body)
        /\ out.value = NoneValue
        /\ Len(out.sent) = 1
        /\ out.sent[1].status = call.ans.status

\* A 202 was answered where only 204 was expected.
C13_Witness ==
    /\ call.op = "graph_request"
    /\ call.expected_status = IntStatus(204)
    /\ call.ans.status = 202
    /\ call.ans.body.kind = "dict"
    /\ out.raised.exc = "GraphError"

\* C14: on an expected status graph_request returns the response handle when
\* the status is 204, a stream was asked for, or the content type is not
\* JSON; otherwise the decoded JSON body, and the response handle when the
\* body does not decode.  It does not raise.
C14_ReturnValue ==
    (/\ call.op = "graph_request"
     /\ out.sent # <<>>
     /\ call.ans.status \in ExpectedSet(call.expected_status)) =>
        /\ out.raised = NoException
        /\ IF call.ans.status = 204 \/ call.stream \/ ~call.ans.json
           THEN out.value = RawResponse
           ELSE IF call.ans.body.kind = "dict"
           THEN out.value = call.ans.body
           ELSE out.value = RawResponse

\* A JSON answer was returned undecoded because a stream was asked for.
C14_Witness ==
    /\ call.op = "graph_request"
    /\ call.ans.status = 200
    /\ call.ans.json
    /\ call.ans.body.kind = "dict"
    /\ call.stream
    /\ out.value = RawResponse

\* C15: a connection constructed without tenant_id, client_id or
\* client_secret raises ConfigError; get_access_token raises ConfigError when
\* the exchange result has no access token; graph_request without a token
\* acquires one first and sends no HTTP request when that fails, and with a
\* token supplied it acquires none.
C15_CredentialFailure ==
    /\ call.op = "SPConnection" =>
          /\ out.sent = <<>>
          /\ (Falsy(call.tenant_id) \/ Falsy(call.client_id)
                \/ Falsy(call.client_secret))
               <=> out.raised = Raise("RvspConfigError", 0)
          /\ conn.constructed <=> out.raised = NoException
    /\ call.op = "get_access_token" =>
          /\ out.sent = <<>>
          /\ call.msal.access_token = Absent
               <=> out.raised = Raise("RvspConfigError", 0)
          /\ call.msal.access_token # Absent =>
               out.raised = NoException /\ out.value = call.msal.access_token
    /\ call.op = "graph_request" =>
          /\ call.token = None => out.acquired = 1
          /\ (call.token = None /\ call.msal.access_token = Absent) =>
               /\ out.raised = Raise("RvspConfigError", 0)
               /\ out.sent = <<>>
          /\ (call.token = None /\ call.msal.access_token # Absent) =>
               /\ Len(out.sent) = 1
               /\ out.sent[1].authorization = call.msal.access_token
          /\ call.token # None =>
               /\ out.acquired = 0
               /\ Len(out.sent) = 1
               /\ out.sent[1].authorization = call.token

\* graph_request without a token failed to acquire one.
C15_Witness ==
    /\ call.op = "graph_request"
    /\ call.token = None
    /\ call.msal.access_token = Absent
    /\ out.raised.exc = "RvspConfigError"
    /\ out.sent = <<>>

----------------------------------------------------------------------------
(* Calls on one SharePointSite, one after the other: _ensure_site_id(),    *)
(* get_drive_id(library_name) and list_files(library_name).  The remote    *)
(* may answer each call with another drives listing.                       *)

LibraryArgs == {None, "Archive", "Nope"}

\* site.py:68: lib = library_name or self.default_library
LibOrDefault(library_name) ==
    IF Falsy(library_name) THEN DefaultLibrary ELSE library_name

\* The library Documents was recreated, and a second drive carries its name.
DrivesRecreated ==
    << [id |-> "drive-C", name |-> "Archive"],
       [id |-> "drive-D", name |-> "Documents"],
       [id |-> "drive-A", name |-> "Documents"] >>

DriveListings == {Drives, DrivesRecreated, <<>>}
SiteStatuses  == {200, 403, 500, NoAnswer}

InitSite ==
    /\ site = NewSite
    /\ doc = NewDocument
    /\ remote = {}
    /\ UploadIdle
    /\ doc_before = doc
    /\ AuxInit

\* The call named op with argument arg ended as r says.
SiteCalled(op, arg, drives, r) ==
    /\ site' = r.site
    /\ call' = [op |-> op, arg |-> arg, drives |-> drives]
    /\ out' = [raised |-> r.raised, value |-> r.value, sent |-> r.sent]
    /\ hist' = IF r.raised = NoException /\ op # "list_files"
               THEN hist \cup {[op |-> op, arg |-> arg, value |-> r.value]}
               ELSE hist
    /\ UNCHANGED <<doc, remote, pc, args, walk, stream, reqs, result,
                   doc_before, remote_files, conn, threads>>

\* site._ensure_site_id()
SiteEnsureSiteId ==
    \E tok \in BOOLEAN, st \in SiteStatuses :
        \E r \in {EnsureSiteId(site, tok, st)} :
            SiteCalled("_ensure_site_id", None, <<>>, r)

\* site.get_drive_id(library_name); the credentials work for the whole call
\* or not at all.
SiteGetDriveId ==
    \E library_name \in LibraryArgs, tok \in BOOLEAN,
       st1, st2 \in SiteStatuses, drives \in DriveListings :
        \E r \in {GetDriveIdIn(site, LibOrDefault(library_name),
                                tok, st1, tok, st2, drives)} :
            SiteCalled("get_drive_id", library_name, drives, r)

\* site.py:92-135: list_files(library_name) on a library whose root holds
\* files only, listed on one page.
ListFiles(s, library_name, tok1, st1, tok2, st2, drives, tok3, st3) ==
    LET r == GetDriveIdIn(s, LibOrDefault(library_name), tok1, st1, tok2, st2,
                          drives)
    IN  IF r.raised # NoException THEN r
        ELSE IF ~tok3
        THEN [r EXCEPT !.raised = Raise("RvspConfigError", 0), !.value = None]
        ELSE LET sent == r.sent \o
                         <<Request("GET_children", <<r.value>>, None, NoRange,
                                   -1, DefaultExpected, st3)>>
                 r3 == GraphRequest(DefaultExpected, FALSE,
                           [status |-> st3, json |-> TRUE, body |-> TextBody])
             IN  IF r3.raised # NoException
                 THEN [site |-> r.site, raised |-> ExceptGraphError(r3.raised),
                       value |-> None, sent |-> sent]
                 ELSE [site |-> r.site, raised |-> NoException,
                       value |-> "files", sent |-> sent]

\* site.list_files(library_name); the credentials work for the whole call
\* or not at all, and all its requests are answered alike.
SiteListFiles ==
    \E library_name \in LibraryArgs, tok \in BOOLEAN,
       st \in SiteStatuses, drives \in DriveListings :
        \E r \in {ListFiles(site, library_name, tok, st, tok, st, drives,
                             tok, st)} :
            SiteCalled("list_files", library_name, drives, r)

NextSite ==
    \/ SiteEnsureSiteId
    \/ SiteGetDriveId
    \/ SiteListFiles

SpecSite == InitSite /\ [][NextSite]_vars

\* What C16 asks of every call: a call that returned before with the same
\* argument returns the same value again and sends nothing.
C16_Step ==
    \A h \in hist :
        (call'.op = h.op /\ call'.arg = h.arg) =>
            /\ out'.raised = NoException
            /\ out'.value = h.value
            /\ out'.sent = <<>>

\* C16: once _ensure_site_id() has returned, and once get_drive_id(lib) has
\* returned for a library, every later call with the same argument on that
\* Site returns the same id and sends no request, whatever was called on the
\* Site in between.
C16_CacheHit == [][C16_Step]_vars

\* get_drive_id("Archive") returned the id cached before, although the
\* remote lists no drive any more, after list_files was called in between.
C16_Witness ==
    /\ call.op = "get_drive_id"
    /\ call.arg = "Archive"
    /\ call.drives = <<>>
    /\ [op |-> "get_drive_id", arg |-> "Archive", value |-> "drive-B"] \in hist
    /\ [op |-> "get_drive_id", arg |-> None, value |-> "drive-D"] \in hist
    /\ out.value = "drive-B"
    /\ out.sent = <<>>

\* What C17 asks of every call.
C17_Step ==
    /\ site.site_id # None => site'.site_id = site.site_id
    /\ \A lib \in DOMAIN site.drive_cache :
          /\ lib \in DOMAIN site'.drive_cache
          /\ site'.drive_cache[lib] = site.drive_cache[lib]

\* C17: once set, site_id never changes and is never unset; a drive_cache
\* entry, once written, is never removed nor overwritten with another value,
\* whatever calls, returning or raising, follow on the Site.
C17_CacheMonotone == [][C17_Step]_vars

\* With Documents cached as drive-A, a call for Archive was answered by a
\* remote where Documents is another drive, and added its entry.
C17_Witness ==
    /\ call.op = "get_drive_id"
    /\ call.arg = "Archive"
    /\ call.drives = DrivesRecreated
    /\ out.value = "drive-C"
    /\ DOMAIN site.drive_cache = {"Documents", "Archive"}
    /\ site.drive_cache["Documents"] = "drive-A"

\* The names of a listing as the NotFound message gives them.
C18_Listed(drives) ==
    IF drives = Drives THEN "Documents, Archive"
    ELSE IF drives = DrivesRecreated THEN "Archive, Documents, Documents"
    ELSE ""

\* What C18 asks of a get_drive_id call whose listing was answered.
C18_Step ==
    (/\ call'.op = "get_drive_id"
     /\ out'.sent # <<>>
     /\ Last(out'.sent).req = "GET_drives"
     /\ Last(out'.sent).status \in DefaultExpected
     /\ \A i \in 1..Len(call'.drives) :
            call'.drives[i].name # LibOrDefault(call'.arg)) =>
        /\ out'.raised.exc = "SharePointNotFoundError"
        /\ out'.raised.message =
               "Drive '" \o LibOrDefault(call'.arg)
               \o "' not found on site domain.sharepoint.com/sites/Finance."
               \o " Available drives: " \o C18_Listed(call'.drives)
        /\ (call'.arg = "Nope" /\ call'.drives = Drives) =>
               out'.raised.message =
                   "Drive 'Nope' not found on site domain.sharepoint.com"
                   \o "/sites/Finance. Available drives: Documents, Archive"
        /\ site'.drive_cache = site.drive_cache

\* C18: get_drive_id for a library that none of the listed drives is named
\* after raises NotFound with a message that lists the names of all drives,
\* comma separated in listing order ('Documents, Archive' for the drives
\* Documents and Archive and the library Nope), and writes nothing to the
\* drive cache.
C18_DriveNotFound == [][C18_Step]_vars

\* Nope was looked up among Documents and Archive, with Archive in the cache.
C18_Witness ==
    /\ call.op = "get_drive_id"
    /\ call.arg = "Nope"
    /\ call.drives = Drives
    /\ out.raised.exc = "SharePointNotFoundError"
    /\ Len(out.sent) = 1
    /\ DOMAIN site.drive_cache = {"Archive"}

----------------------------------------------------------------------------
(* Threads that share one SharePointSite and call get_drive_id() at the    *)
(* same time.  A thread may be preempted between any two reads or writes   *)
(* of the Site, and while it waits for an answer.  The remote does not     *)
(* change: its site is SiteId and its drives are Drives.                   *)

\* The number of threads.
NumThreads == 2
Threads    == 1..NumThreads

\* An answer that is accepted, one that is translated, and none at all.
ThreadStatuses == {200, 403, NoAnswer}

\* The frame of a thread that has not called yet.
IdleFrame ==
    [pc |-> "idle", arg |-> None, lib |-> None, site_id |-> None,
     raised |-> NoException, value |-> None, sent |-> <<>>]

InitThreads ==
    /\ site = NewSite
    /\ doc = NewDocument
    /\ remote = {}
    /\ UploadIdle
    /\ doc_before = doc
    /\ remote_files = {}
    /\ conn = Connected
    /\ call = NoCall
    /\ out = NoOutcome
    /\ hist = {}
    /\ threads = [t \in Threads |-> IdleFrame]

\* Thread t goes on with frame f; the Site becomes s.
ThreadStep(t, f, s) ==
    /\ threads' = [threads EXCEPT ![t] = f]
    /\ site' = s
    /\ UNCHANGED <<doc, remote, pc, args, walk, stream, reqs, result,
                   doc_before, remote_files, conn, call, out, hist>>

ThreadRaises(t, e, sent) ==
    ThreadStep(t, [threads[t] EXCEPT !.pc = "raised", !.raised = e,
                                     !.sent = sent], site)

\* site.py:68: thread t calls get_drive_id(library_name).
ThreadCall(t) ==
    /\ threads[t].pc = "idle"
    /\ \E library_name \in LibraryArgs :
          ThreadStep(t, [threads[t] EXCEPT !.pc = "cache_check",
                                           !.arg = library_name,
                                           !.lib = LibOrDefault(library_name)],
                     site)

\* site.py:69-70
ThreadCheckCache(t) ==
    LET f == threads[t] IN
    /\ f.pc = "cache_check"
    /\ IF CachedDrive(site, f.lib) # None
       THEN ThreadStep(t, [f EXCEPT !.pc = "returned",
                                    !.value = CachedDrive(site, f.lib)], site)
       ELSE ThreadStep(t, [f EXCEPT !.pc = "site_check"], site)

\* site.py:72 and 49-50
ThreadCheckSite(t) ==
    LET f == threads[t] IN
    /\ f.pc = "site_check"
    /\ IF site.site_id # None
       THEN ThreadStep(t, [f EXCEPT !.pc = "drives_request",
                                    !.site_id = site.site_id], site)
       ELSE ThreadStep(t, [f EXCEPT !.pc = "site_request"], site)

\* site.py:52-58: the token and GET /sites/{hostname}:{path}, until the
\* answer is there.
ThreadSiteRequest(t) ==
    LET f == threads[t] IN
    /\ f.pc = "site_request"
    /\ \E tok \in BOOLEAN, st \in ThreadStatuses :
          IF ~tok THEN ThreadRaises(t, Raise("RvspConfigError", 0), f.sent)
          ELSE LET sent == Append(f.sent,
                               Request("GET_site", SitePath, None, NoRange, -1,
                                       DefaultExpected, st))
                   r == GraphRequest(DefaultExpected, FALSE,
                            [status |-> st, json |-> TRUE, body |-> TextBody])
               IN  IF r.raised # NoException
                   THEN ThreadRaises(t, ExceptGraphError(r.raised), sent)
                   ELSE ThreadStep(t, [f EXCEPT !.pc = "site_write",
                                                !.site_id = SiteId,
                                                !.sent = sent], site)

\* site.py:60-61: self._site_id = data["id"]
ThreadSiteWrite(t) ==
    LET f == threads[t] IN
    /\ f.pc = "site_write"
    /\ ThreadStep(t, [f EXCEPT !.pc = "drives_request"],
                  [site EXCEPT !.site_id = f.site_id])

\* site.py:73-79: the token and GET /sites/{site_id}/drives, until the answer
\* is there.
ThreadDrivesRequest(t) ==
    LET f == threads[t] IN
    /\ f.pc = "drives_request"
    /\ \E tok \in BOOLEAN, st \in ThreadStatuses :
          IF ~tok THEN ThreadRaises(t, Raise("RvspConfigError", 0), f.sent)
          ELSE LET sent == Append(f.sent,
                               Request("GET_drives", <<f.site_id>>, None,
                                       NoRange, -1, DefaultExpected, st))
                   r == GraphRequest(DefaultExpected, FALSE,
                            [status |-> st, json |-> TRUE, body |-> TextBody])
               IN  IF r.raised # NoException
                   THEN ThreadRaises(t, ExceptGraphError(r.raised), sent)
                   ELSE ThreadStep(t, [f EXCEPT !.pc = "scan", !.sent = sent],
                                   site)

\* site.py:81-90: the listing is searched; the drive found is written to the
\* cache and returned.
ThreadScan(t) ==
    LET f == threads[t] IN
    /\ f.pc = "scan"
    /\ IF FirstDriveIn(Drives, f.lib) = None
       THEN ThreadRaises(t, DriveNotFound(f.lib, Drives), f.sent)
       ELSE ThreadStep(t, [f EXCEPT !.pc = "returned",
                                    !.value = FirstDriveIn(Drives, f.lib)],
                       CacheDrive(site, f.lib, FirstDriveIn(Drives, f.lib)))

NextThreads ==
    \E t \in Threads :
        \/ ThreadCall(t)
        \/ ThreadCheckCache(t)
        \/ ThreadCheckSite(t)
        \/ ThreadSiteRequest(t)
        \/ ThreadSiteWrite(t)
        \/ ThreadDrivesRequest(t)
        \/ ThreadScan(t)

SpecThreads == InitThreads /\ [][NextThreads]_vars

\* The Sites that get_drive_id(lib) may leave, called on a Site of S with
\* nothing else running, each request being accepted (200) or not (500); a
\* token that fails leaves the Site that the rejected request after it leaves.
SeqStep(S, lib) ==
    { GetDriveId(s, lib, TRUE, st1, TRUE, st2).site :
        s \in S, st1 \in {200, 500}, st2 \in {200, 500} }

\* The Sites that the calls of the threads of T may leave when they run one
\* after the other, in any order, starting on a Site of S.
RECURSIVE SeqFinal(_, _)
SeqFinal(S, T) ==
    IF T = {} THEN S
    ELSE UNION { SeqFinal(SeqStep(S, threads[t].lib), T \ {t}) : t \in T }

AllDone == \A t \in Threads : threads[t].pc \in {"returned", "raised"}

\* C19: threads that call get_drive_id on one Site at the same time, before
\* the cache is filled, may send the same request more than once, but with
\* an unchanged remote every caller that returns has the id the remote lists
\* for its library, the site_id and drive_cache left are those of the calls
\* run one after the other, and the cache never holds a value the remote did
\* not return for that library.
C19_Idempotent ==
    /\ \A t \in Threads :
          threads[t].pc = "returned" =>
              /\ threads[t].value = FirstDrive(threads[t].lib)
              /\ \A u \in Threads :
                    (threads[u].pc = "returned" /\ threads[u].lib = threads[t].lib)
                        => threads[u].value = threads[t].value
    /\ site.site_id \in {None, SiteId}
    /\ \A lib \in DOMAIN site.drive_cache :
          /\ site.drive_cache[lib] = FirstDrive(lib)
          /\ \E t \in Threads : threads[t].lib = lib
    /\ AllDone =>
          /\ site \in SeqFinal({NewSite}, Threads)
          /\ (\A t \in Threads : threads[t].pc = "returned") =>
                /\ site.site_id = SiteId
                /\ DOMAIN site.drive_cache = {threads[t].lib : t \in Threads}

\* Two threads asked for the same library, both missed the cache, both sent
\* both requests, and both returned.
C19_Witness ==
    /\ threads[1].pc = "returned"
    /\ threads[2].pc = "returned"
    /\ threads[1].lib = threads[2].lib
    /\ Len(threads[1].sent) = 2
    /\ Len(threads[2].sent) = 2

----------------------------------------------------------------------------
(* ensure_folder(path) called on a Document, once or twice in succession,  *)
(* by a single caller, on a drive that holds folders and files and loses   *)
(* none meanwhile.                                                         *)

\* "", "/", " ", ".", "a", "/a/", "a/b", "a//b", " /a", " //a", "a /b",
\* "a/./b", "a/ " and "a/b/c".
RawPaths ==
    { <<>>, <<"/">>, <<" ">>, <<".">>, <<"a">>, <<"/", "a", "/">>,
      <<"a", "/", "b">>, <<"a", "/", "/", "b">>, <<" ", "/", "a">>,
      <<" ", "/", "/", "a">>, <<"a", " ", "/", "b">>,
      <<"a", "/", ".", "/", "b">>, <<"a", "/", " ">>,
      <<"a", "/", "b", "/", "c">> }

\* What the drive holds when the call is made.
DriveStates ==
    { [folders |-> {}, files |-> {}],
      [folders |-> {<<"a">>}, files |-> {}],
      [folders |-> {<<"a">>, <<"a", "b">>}, files |-> {}],
      [folders |-> {}, files |-> {<<"a">>}],
      [folders |-> {<<"a">>}, files |-> {<<"a", "b">>}] }

InitFolder ==
    /\ site = NewSite
    /\ doc = NewDocument
    /\ \E d \in DriveStates : remote = d.folders /\ remote_files = d.files
    /\ UploadIdle
    /\ doc_before = doc
    /\ conn = Connected
    /\ call = NoCall
    /\ out = NoOutcome
    /\ hist = {}
    /\ threads = <<>>

\* document.py:299-308: ensure_folder(path) is called and resolves the drive.
EnsureFolderCall ==
    /\ pc = "idle"
    /\ \E path \in RawPaths :
          /\ sp_path' = path
          /\ call' = [op |-> "ensure_folder", path |-> path]
    /\ \E tok \in BOOLEAN, st1, st2 \in SiteStatuses :
          LET r == GetDriveId(site, LibraryName(doc), tok, st1, tok, st2) IN
          /\ site' = r.site
          /\ reqs' = reqs \o r.sent
          /\ IF r.raised # NoException
             THEN Fail(r.raised) /\ UNCHANGED doc
             ELSE /\ doc' = [doc EXCEPT !.drive_id = r.value]
                  /\ pc' = "ensure_folder"
                  /\ UNCHANGED result
    /\ UNCHANGED <<remote, file, chunk_size, walk, stream, doc_before,
                   remote_files, conn, out, hist, threads>>

\* document.py:317 and 207: ensure_folder returns what _ensure_folder_path
\* returned, the folder_path it walked.
EnsureFolderReturn ==
    /\ pc = "transfer"
    /\ call.op = "ensure_folder"
    /\ out' = [raised |-> NoException, value |-> Join(folder, "/"),
               sent |-> reqs]
    /\ pc' = "done"
    /\ UNCHANGED <<site, doc, remote, args, walk, stream, reqs, result,
                   doc_before, remote_files, conn, call, hist, threads>>

\* ensure_folder(path) is called once more, with the path of the call that
\* returned and nothing done to the drive in between; the drive id is the
\* one the Document holds (document.py:87-90).
EnsureFolderAgain ==
    /\ pc = "done"
    /\ call.op = "ensure_folder"
    /\ result = NoResult
    /\ hist = {}
    /\ hist' = {[op |-> "ensure_folder", path |-> call.path, out |-> out]}
    /\ out' = NoOutcome
    /\ reqs' = <<>>
    /\ folder' = <<>>
    /\ seg' = 0
    /\ item_path' = NonePath
    /\ pc' = "ensure_folder"
    /\ UNCHANGED <<site, doc, remote, args, stream, result, doc_before,
                   remote_files, conn, call, threads>>

NextFolder ==
    \/ EnsureFolderCall
    \/ EnsureFolder
    \/ EnsureFolderPathStep
    \/ EnsureFolderReturn
    \/ EnsureFolderAgain

SpecFolder == InitFolder /\ [][NextFolder]_vars

\* ensure_folder has returned.
FolderReturned ==
    /\ call.op = "ensure_folder"
    /\ pc = "done"
    /\ result = NoResult

\* The path of RawPaths without the slashes and the whitespace around it,
\* without empty and "." components, its components joined by one slash.
C20_Normalized(path) ==
    IF path \in {<<>>, <<"/">>, <<" ">>, <<".">>} THEN ""
    ELSE IF path \in {<<"a">>, <<"/", "a", "/">>, <<" ", "/", "a">>,
                      <<" ", "/", "/", "a">>, <<"a", "/", " ">>} THEN "a"
    ELSE IF path = <<"a", " ", "/", "b">> THEN "a /b"
    ELSE IF path = <<"a", "/", "b", "/", "c">> THEN "a/b/c"
    ELSE "a/b"

\* The folder walk of the call: its probes and creates.
IsFolderRequest(e) == e.req \in {"GET_item", "POST_children"}

\* C20: when ensure_folder returns (single caller, nothing deleted
\* meanwhile), every prefix of the normalized folder path exists in the
\* drive as a folder, and the value returned is the normalized path; for an
\* empty path it is the empty string, and no probe or create was sent.
C20_FoldersExist ==
    FolderReturned =>
        /\ out.value = C20_Normalized(call.path)
        /\ \A k \in 1..Len(folder) : SubSeq(folder, 1, k) \in remote
        /\ out.value = "" => SelectSeq(reqs, IsFolderRequest) = <<>>

\* What holds of the call as it is: every prefix exists in the drive, as a
\* folder or as a file.
C20_ItemsExist ==
    FolderReturned =>
        /\ out.value = C20_Normalized(call.path)
        /\ \A k \in 1..Len(folder) :
              SubSeq(folder, 1, k) \in remote \cup remote_files
        /\ out.value = "" => SelectSeq(reqs, IsFolderRequest) = <<>>

\* ensure_folder("a/b") returned "a/b" on a drive where a/b is a file.
C20_Witness ==
    /\ FolderReturned
    /\ out.value = "a/b"
    /\ <<"a", "b">> \in remote_files
    /\ <<"a", "b">> \notin remote

\* The probes and creates of the folder walk under way, in order.
FolderLog == SelectSeq(reqs, IsFolderRequest)

IsProbe(e) == e.req = "GET_item"
IsCreate(e) == e.req = "POST_children"

\* The path of the folder a create asks for.
CreatedPath(e) == e.path \o <<e.name>>

\* C21: the segments are handled left to right: the k-th probe of a walk is
\* for the prefix of k segments; a create comes right after the probe of
\* its own prefix was answered 404, names the last segment in the children
\* of the immediate parent with conflictBehavior "fail", and comes only
\* after the parent prefix was found by a probe or created with 201 in the
\* same walk; so no create follows a probe that found an item.
C21_LeftToRight ==
    LET log == FolderLog
        nth(i) == Len(SelectSeq(SubSeq(log, 1, i), IsProbe))
        settled(j, path) ==
            \/ IsProbe(log[j]) /\ log[j].path = path
                  /\ log[j].status \in {200, 201, 204}
            \/ IsCreate(log[j]) /\ CreatedPath(log[j]) = path
                  /\ log[j].status = 201
    IN  \A i \in 1..Len(log) :
          /\ IsProbe(log[i]) => log[i].path = SubSeq(folder, 1, nth(i))
          /\ IsCreate(log[i]) =>
                /\ i > 1
                /\ IsProbe(log[i - 1])
                /\ log[i - 1].status = 404
                /\ CreatedPath(log[i]) = log[i - 1].path
                /\ Len(log[i].path) = Len(log[i - 1].path) - 1
                /\ log[i].conflictBehavior = "fail"
                /\ log[i].path # <<>> =>
                      \E j \in 1..(i - 2) : settled(j, log[i].path)

\* ensure_folder("a/b/c") returned on a drive that had only a: a was found,
\* a/b and a/b/c were probed and created, in this order.
C21_Witness ==
    /\ FolderReturned
    /\ out.value = "a/b/c"
    /\ Len(FolderLog) = 5
    /\ FolderLog[1].status = 200
    /\ IsCreate(FolderLog[3])
    /\ IsCreate(FolderLog[5])
    /\ FolderLog[5].path = <<"a", "b">>

\* The kind of exception the domain taxonomy has for a status.
C22_Translated(status) ==
    IF status = 404 THEN "SharePointNotFoundError"
    ELSE IF status \in {401, 403} THEN "SharePointPermissionError"
    ELSE IF status = 409 THEN "SharePointConflictError"
    ELSE "GraphError"

\* C22: a probe answered a status that is neither a success nor 404, or a
\* create answered anything but 201, is the last request of the walk: the
\* call has ended raising the translation of that status and has returned
\* no path.
C22_FailFast ==
    LET log == FolderLog
        failed(e) == IF IsProbe(e) THEN e.status \notin {200, 201, 204, 404}
                     ELSE e.status # 201
    IN  \A i \in 1..Len(log) :
          failed(log[i]) =>
             /\ i = Len(log)
             /\ pc = "done"
             /\ result.state = "raised"
             /\ out = NoOutcome
             /\ log[i].status # NoAnswer =>
                   /\ result.exc = C22_Translated(log[i].status)
                   /\ result.status = log[i].status

\* ensure_folder("a/b/c") on an empty drive: a was created, the create of
\* a/b was answered 409 and the call raised, a/b/c was never probed.
C22_Witness ==
    /\ call.op = "ensure_folder"
    /\ call.path = <<"a", "/", "b", "/", "c">>
    /\ Len(FolderLog) = 4
    /\ FolderLog[2].status = 201
    /\ IsCreate(FolderLog[4])
    /\ FolderLog[4].status = 409
    /\ result.exc = "SharePointConflictError"

\* A probe answered 403 ended the walk at its first segment.
C22_ProbeWitness ==
    /\ call.op = "ensure_folder"
    /\ Len(folder) > 1
    /\ Len(FolderLog) = 1
    /\ FolderLog[1].status = 403
    /\ result.exc = "SharePointPermissionError"

\* The creates in a request log.
Creates(log) == SelectSeq(log, IsCreate)

\* C23: of two ensure_folder calls in succession with the same path and an
\* unchanged drive in between, the second sends probes only; every prefix
\* the first call probed missing was created by exactly one create of the
\* two calls together, every other prefix by none; and the second call
\* returns the path the first returned.
C23_Idempotent ==
    \A first \in hist :
       LET log1 == SelectSeq(first.out.sent, IsFolderRequest)
           both == Creates(log1) \o Creates(FolderLog)
           creates(path) == {i \in 1..Len(both) : CreatedPath(both[i]) = path}
       IN  /\ call.path = first.path
           /\ Creates(FolderLog) = <<>>
           /\ \A i \in 1..Len(log1) :
                 IsProbe(log1[i]) =>
                    Cardinality(creates(log1[i].path))
                       = IF log1[i].status = 404 THEN 1 ELSE 0
           /\ FolderReturned =>
                 /\ out.value = first.out.value
                 /\ Len(FolderLog) = Len(FolderParts(FolderPath(call.path)))

\* ensure_folder("a/b") twice on a drive that had a but not a/b: one create
\* in the first call, two probes and no create in the second.
C23_Witness ==
    /\ FolderReturned
    /\ out.value = "a/b"
    /\ \E first \in hist :
          /\ Len(Creates(first.out.sent)) = 1
          /\ first.out.value = "a/b"
    /\ Len(FolderLog) = 2

----------------------------------------------------------------------------
(* Concurrent _ensure_folder_path calls on one drive: each caller walks    *)
(* its path, a probe and a create being separate exchanges between which   *)
(* the other callers act.                                                  *)

\* The number of concurrent callers.
NumCallers == 2
Callers    == 1..NumCallers

\* folder_path of a call: "a" or "a/b".
RacePaths == {<<"a">>, <<"a", "/", "b">>}

\* A transport failure that the remote may answer in place of the truth.
RaceFaults == {500}

\* The frame of a caller that has not called yet.
IdleWalk ==
    [pc |-> "idle", parts |-> <<>>, seg |-> 0, raised |-> NoException,
     value |-> None, sent |-> <<>>]

InitRace ==
    /\ site = NewSite
    /\ doc = NewDocument
    /\ remote \in {{}, {<<"a">>}}
    /\ UploadIdle
    /\ doc_before = doc
    /\ remote_files = {}
    /\ conn = Connected
    /\ call = NoCall
    /\ out = NoOutcome
    /\ hist = {}
    /\ threads = [t \in Callers |-> IdleWalk]

\* The drive answers the create e: with conflictBehavior "fail" 409 where
\* an item has the name, else 201 (404 when the parent is missing); with
\* "replace" the item in place is replaced.
DriveCreate(folders, e) ==
    IF e.path # <<>> /\ e.path \notin folders
    THEN [status |-> 404, folders |-> folders]
    ELSE IF CreatedPath(e) \in folders /\ e.conflictBehavior = "fail"
    THEN [status |-> 409, folders |-> folders]
    ELSE [status |-> 201, folders |-> folders \cup {CreatedPath(e)}]

\* Caller t goes on with frame f; the drive holds folders.
WalkStep(t, f, folders) ==
    /\ threads' = [threads EXCEPT ![t] = f]
    /\ remote' = folders
    /\ UNCHANGED <<site, doc, pc, args, walk, stream, reqs, result,
                   doc_before, remote_files, conn, call, out, hist>>

\* document.py:168-170, 207: the walk of f goes to its next segment, or
\* returns folder_path after the last one.
WalkOn(f, sent) ==
    IF f.seg = Len(f.parts)
    THEN [f EXCEPT !.pc = "returned", !.value = Join(f.parts, "/"),
                   !.sent = sent]
    ELSE [f EXCEPT !.pc = "probe", !.seg = f.seg + 1, !.sent = sent]

\* document.py:157-166: caller t calls _ensure_folder_path(folder_path).
WalkCall(t) ==
    /\ threads[t].pc = "idle"
    /\ \E folder_path \in RacePaths :
          WalkStep(t, [threads[t] EXCEPT !.pc = "probe",
                                         !.parts = FolderParts(folder_path),
                                         !.seg = 1], remote)

\* document.py:169-176 and 203-205: the probe of the segment at hand.
WalkProbe(t) ==
    LET f == threads[t]
        current_path == SubSeq(f.parts, 1, f.seg)
        truth == IF current_path \in remote THEN 200 ELSE 404
    IN  /\ f.pc = "probe"
        /\ \E st \in {truth} \cup RaceFaults :
              \E r \in {GraphRequest(DefaultExpected, FALSE,
                            [status |-> st, json |-> TRUE, body |-> TextBody])} :
                 LET sent == Append(f.sent,
                                Request("GET_item", current_path, None, NoRange,
                                        -1, DefaultExpected, st))
                 IN  IF Probed(r) = "found"
                     THEN WalkStep(t, WalkOn(f, sent), remote)
                     ELSE IF Probed(r) = "missing"
                     THEN WalkStep(t, [f EXCEPT !.pc = "create", !.sent = sent],
                                   remote)
                     ELSE WalkStep(t, [f EXCEPT !.pc = "raised", !.sent = sent,
                                          !.raised = ExceptGraphError(r.raised)],
                                   remote)

\* document.py:177-201: the create of the segment the probe found missing.
WalkCreate(t) ==
    LET f == threads[t]
        current_path == SubSeq(f.parts, 1, f.seg)
        e == CreateFolder(ParentPath(current_path), f.parts[f.seg], 0)
    IN  /\ f.pc = "create"
        /\ \E a \in {DriveCreate(remote, e)}
                     \cup {[status |-> st, folders |-> remote] : st \in RaceFaults} :
              \E r \in {GraphRequest({201}, FALSE,
                            [status |-> a.status, json |-> TRUE,
                             body |-> TextBody])} :
                 LET sent == Append(f.sent, [e EXCEPT !["status"] = a.status])
                 IN  IF r.raised = NoException
                     THEN WalkStep(t, WalkOn(f, sent), a.folders)
                     ELSE WalkStep(t, [f EXCEPT !.pc = "raised", !.sent = sent,
                                          !.raised = ExceptGraphError(r.raised)],
                                   a.folders)

NextRace ==
    \E t \in Callers :
       \/ WalkCall(t)
       \/ WalkProbe(t)
       \/ WalkCreate(t)

SpecRace == InitRace /\ [][NextRace]_vars

\* The creates caller t sent for path so far that were answered status.
CreatesOf(frames, t, path, status) ==
    {i \in 1..Len(frames[t].sent) :
        /\ IsCreate(frames[t].sent[i])
        /\ CreatedPath(frames[t].sent[i]) = path
        /\ frames[t].sent[i].status = status}

\* Caller t lost a race: its create of a segment was answered 409 after
\* another caller's create of the same segment was answered 201.
LostRace(t) ==
    \E u \in Callers \ {t} :
       \E path \in {<<"a">>, <<"a", "b">>} :
          /\ CreatesOf(threads, t, path, 409) # {}
          /\ CreatesOf(threads, u, path, 201) # {}

\* C24: a caller whose create was answered 409 because another caller
\* created the segment between its probe and its create does not raise: it
\* goes on with the walk and returns.
C24_RaceTolerant ==
    \A t \in Callers : LostRace(t) => threads[t].raised = NoException

\* What holds of the code: the caller that lost the race has raised
\* SharePointConflictError and has sent nothing after the 409.
C24_ConflictRaised ==
    \A t \in Callers :
       LostRace(t) =>
          /\ threads[t].pc = "raised"
          /\ threads[t].raised.exc = "SharePointConflictError"
          /\ Last(threads[t].sent).status = 409

\* Two callers ensured "a/b" on a drive with a; one created a/b, the other
\* one lost the race.
C24_Witness ==
    /\ LostRace(2)
    /\ threads[1].pc = "returned"
    /\ threads[1].value = "a/b"
    /\ threads[2].parts = <<"a", "b">>

\* C25: under every interleaving at most one create of a path is answered
\* 201, and a create of a path that is a folder of the drive is never
\* answered 201: no folder is duplicated or replaced.
C25_Step ==
    \A path \in {<<"a">>, <<"a", "b">>} :
       LET done(frames) == UNION {{<<t, i>> : i \in CreatesOf(frames, t, path, 201)}
                                   : t \in Callers}
       IN  /\ Cardinality(done(threads')) <= 1
           /\ path \in remote => done(threads') = done(threads)
           /\ done(threads') # {} => path \in remote'

C25_NoDuplicate == [][C25_Step]_vars

\* Both callers sent a create of a/b: one was answered 201, one 409.
C25_Witness ==
    /\ CreatesOf(threads, 1, <<"a", "b">>, 201) # {}
    /\ CreatesOf(threads, 2, <<"a", "b">>, 409) # {}
    /\ <<"a", "b">> \in remote

----------------------------------------------------------------------------
(* The classic server-relative URL of an item, built from its path and     *)
(* parsed back, as path strings.                                           *)

\* The pieces of a library name.
Text(name) ==
    IF name = "" THEN <<>>
    ELSE IF name = "x/y" THEN <<"x", "/", "y">>
    ELSE <<name>>

\* str.startswith(prefix)
StartsWith(str, prefix) ==
    /\ Len(str) >= Len(prefix)
    /\ SubSeq(str, 1, Len(prefix)) = prefix

\* document.py:99 and 214: f"/{site_path.lstrip('/')}", of Site s.
SitePrefix(s) == <<"/">> \o LStrip(s.site_path, {"/"})

\* Mutant: the library is left out of the URL.
ServerRelativeUrl_NoLibrary(s, d, path) ==
    SitePrefix(s) \o <<"/">> \o Strip(path, {"/"})

\* document.py:209-215: _server_relative_from_path(item_path), as a path
\* string.
ServerRelativeUrl(s, d, path) ==
    SitePrefix(s) \o <<"/">> \o Text(LibraryName(d)) \o <<"/">>
        \o Strip(path, {"/"})

PathError == Raise("SharePointPathError", 0)

\* document.py:109-114: remainder.split("/", 1) and what is made of it.
LibraryAndPath(remainder) ==
    LET seps == {i \in 1..Len(remainder) : remainder[i] = "/"} IN
    IF seps = {} THEN [raised |-> PathError, value |-> None]
    ELSE LET i == CHOOSE k \in seps : \A j \in seps : k <= j
         IN  [raised |-> NoException,
              value  |-> <<Join(SubSeq(remainder, 1, i - 1), ""),
                           Join(SubSeq(remainder, i + 1, Len(remainder)), "")>>]

\* Mutant: a URL of any site is taken for one of this site.
ParseServerRelativeUrl_AnySite(s, url) ==
    LET u == Strip(url, {" "}) IN
    IF u = <<>> \/ u[1] # "/" THEN [raised |-> PathError, value |-> None]
    ELSE LibraryAndPath(SubSeq(u, Len(SitePrefix(s)) + 2, Len(u)))

\* document.py:92-114: _parse_server_relative_url(url) on a Document of
\* Site s: the exception raised, or the pair (library_name, item_path).
ParseServerRelativeUrl(s, url) ==
    LET u      == Strip(url, {" "})
        prefix == SitePrefix(s) \o <<"/">>
    IN  IF u = <<>> \/ u[1] # "/" THEN [raised |-> PathError, value |-> None]
        ELSE IF ~StartsWith(u, prefix)
        THEN [raised |-> PathError, value |-> None]
        ELSE LibraryAndPath(SubSeq(u, Len(prefix) + 1, Len(u)))

\* site_path of a Site: "/sites/Finance", "sites/Finance", "" and
\* "/sites/Finance/".
SitePaths ==
    { <<"/", "sites", "/", "Finance">>, <<"sites", "/", "Finance">>, <<>>,
      <<"/", "sites", "/", "Finance", "/">> }

\* library of a Document.
UrlLibraries == {None, "", "Docs", "x/y"}

\* item_path: "f", "a/f", "/a/f", "a/f/", "", "f " and "a b/f".
UrlItemPaths ==
    { <<"f">>, <<"a", "/", "f">>, <<"/", "a", "/", "f">>,
      <<"a", "/", "f", "/">>, <<>>, <<"f", " ">>,
      <<"a", " ", "b", "/", "f">> }

\* url: "", "sites/Finance/Docs/f", " /sites/Finance/Docs/f",
\* "/sites/Finance/Docs/f ", "/sites/Other/Docs/f", "/sites/Finance",
\* "/sites/Finance/", "/sites/Finance/Docs", "/sites/Finance/Docs/",
\* "/sites/Finance/Docs/a/f", "/sites/FinanceX/Docs/f", "//Docs/f", " ".
UrlArgs ==
    { <<>>, <<"sites", "/", "Finance", "/", "Docs", "/", "f">>,
      <<" ", "/", "sites", "/", "Finance", "/", "Docs", "/", "f">>,
      <<"/", "sites", "/", "Finance", "/", "Docs", "/", "f", " ">>,
      <<"/", "sites", "/", "Other", "/", "Docs", "/", "f">>,
      <<"/", "sites", "/", "Finance">>,
      <<"/", "sites", "/", "Finance", "/">>,
      <<"/", "sites", "/", "Finance", "/", "Docs">>,
      <<"/", "sites", "/", "Finance", "/", "Docs", "/">>,
      <<"/", "sites", "/", "Finance", "/", "Docs", "/", "a", "/", "f">>,
      <<"/", "sites", "/", "FinanceX", "/", "Docs", "/", "f">>,
      <<"/", "/", "Docs", "/", "f">>, <<" ">> }

InitUrl ==
    /\ \E site_path \in SitePaths : site = NewSite @@ [site_path |-> site_path]
    /\ \E library \in UrlLibraries : doc = [NewDocument EXCEPT !.library = library]
    /\ remote = {}
    /\ UploadIdle
    /\ doc_before = doc
    /\ AuxInit

\* The call op with arguments arg, after the call before, returned value or
\* raised; it sent nothing and left Site and Document alone.
UrlCalled(op, arg, r) ==
    /\ call' = [op |-> op, arg |-> arg, before |-> call]
    /\ out' = [raised |-> r.raised, value |-> r.value, sent |-> <<>>]
    /\ UNCHANGED <<site, doc, remote, pc, args, walk, stream, reqs, result,
                   doc_before, remote_files, conn, hist, threads>>

\* _server_relative_from_path(item_path) is called.
UrlBuild ==
    /\ call.op = "none"
    /\ \E path \in UrlItemPaths :
          UrlCalled("build", path,
                    [raised |-> NoException,
                     value  |-> ServerRelativeUrl(site, doc, path)])

\* _parse_server_relative_url(url) is called, with a URL at hand or with
\* the one that was built.
UrlParse ==
    /\ call.op \in {"none", "build"}
    /\ \E url \in IF call.op = "build" THEN {out.value} ELSE UrlArgs :
          \E r \in {ParseServerRelativeUrl(site, url)} :
             UrlCalled("parse", url, r)

NextUrl ==
    \/ UrlBuild
    \/ UrlParse

SpecUrl == InitUrl /\ [][NextUrl]_vars

\* The URL that was built has been parsed.
RoundTrip == call.op = "parse" /\ call.before.op = "build"

\* C26: parsing the URL built from an item path gives back the library
\* name of the Document and that item path, whatever the site path, the
\* library and the item path.
C26_RoundTrip ==
    RoundTrip =>
       /\ out.raised = NoException
       /\ out.value = <<LibraryName(doc), Join(call.before.arg, "")>>

\* What holds: with a library name without "/", parsing the built URL gives
\* back the library name, and the item path without the slashes at its two
\* ends and without the whitespace that then ends it; this is the item
\* path itself when it has neither.
C26_RoundTripStripped ==
    RoundTrip /\ LibraryName(doc) # "x/y" =>
       LET path == call.before.arg
           kept == RStrip(Strip(path, {"/"}), {" "})
       IN  /\ out.raised = NoException
           /\ out.value = <<LibraryName(doc), Join(kept, "")>>
           /\ (path = <<>> \/ (path[1] # "/"
                   /\ path[Len(path)] \notin {"/", " "}))
                 => kept = path

\* "a/f" in library Docs of /sites/Finance went to the URL and back.
C26_Witness ==
    /\ RoundTrip
    /\ call.before.arg = <<"a", "/", "f">>
    /\ call.arg = <<"/", "sites", "/", "Finance", "/", "Docs", "/", "a", "/", "f">>
    /\ out.value = <<"Docs", "a/f">>

\* "/a/f" came back as "a/f".
C26_StrippedWitness ==
    /\ RoundTrip
    /\ call.before.arg = <<"/", "a", "/", "f">>
    /\ out.value = <<LibraryName(doc), "a/f">>

\* What the parse makes of the text u on Site s: PathError when u does
\* not start with "/", or not with the site path and a "/" after it, or
\* when fewer than two segments follow; else the first segment and the rest.
C27_Parsed(s, u) ==
    LET prefix   == <<"/">> \o LStrip(s.site_path, {"/"}) \o <<"/">>
        segments == Split(SubSeq(u, Len(prefix) + 1, Len(u)))
    IN  IF u = <<>> \/ u[1] # "/" THEN "SharePointPathError"
        ELSE IF Len(u) < Len(prefix)
                \/ \E i \in 1..Len(prefix) : u[i] # prefix[i]
        THEN "SharePointPathError"
        ELSE IF Len(segments) < 2 THEN "SharePointPathError"
        ELSE <<segments[1], Join(Tail(segments), "/")>>

\* C27: _parse_server_relative_url(url) sends no request and leaves the
\* Document as it was; it raises PathError when url does not start with
\* "/", when it does not start with the site path followed by "/", or when
\* fewer than two segments follow the prefix; otherwise it returns the
\* first segment as library name and the rest as item path.
C27_ParseAsGiven ==
    call.op = "parse" =>
       /\ out.sent = <<>> /\ reqs = <<>>
       /\ doc = doc_before
       /\ IF out.raised = NoException
          THEN out.value = C27_Parsed(site, call.arg)
          ELSE out.raised.exc = C27_Parsed(site, call.arg)

\* What holds: the same of url without the whitespace at its two ends.
C27_ParseStripped ==
    call.op = "parse" =>
       /\ out.sent = <<>> /\ reqs = <<>>
       /\ doc = doc_before
       /\ IF out.raised = NoException
          THEN out.value = C27_Parsed(site, Strip(call.arg, {" "}))
          ELSE out.raised.exc = C27_Parsed(site, Strip(call.arg, {" "}))

\* "/sites/Other/Docs/f" was parsed on the site /sites/Finance, and raised.
C27_Witness ==
    /\ call.op = "parse"
    /\ call.arg = <<"/", "sites", "/", "Other", "/", "Docs", "/", "f">>
    /\ site.site_path = <<"/", "sites", "/", "Finance">>
    /\ out.raised = PathError

\* "/sites/Finance/Docs/a/f" was parsed on that site into Docs and a/f.
C27_ParsedWitness ==
    /\ call.op = "parse"
    /\ call.before.op = "none"
    /\ out.raised = NoException
    /\ out.value = <<"Docs", "a/f">>

----------------------------------------------------------------------------
(* The binding of the Document by upload().                                *)

\* The fields of the binding that differ between Documents d and e.
BindingDiff(d, e) ==
    {f \in {"item_id", "item_path", "file"} : d[f] # e[f]}

\* C29: in every state of the Document item_id is set exactly when file
\* is; a call that has ended, returning or raising, has updated all of
\* item_id, item_path and file or none of them; and after a binding that
\* took effect item_path is set.
C29_AtomicBinding ==
    /\ (doc.item_id # None) <=> (doc.file # NoneValue)
    /\ pc = "done" =>
          /\ BindingDiff(doc, doc_before) \in {{}, {"item_id", "item_path", "file"}}
          /\ result.state = "returned" => doc.item_path # NonePath

----------------------------------------------------------------------------
(* One upload() call with a folder path as callers write it: with slashes  *)
(* and whitespace around it, empty and "." components.                     *)

\* The call upload(sp_path, file) is made, of a small file or of a file of
\* one chunk.
UploadAnyPath ==
    /\ pc = "idle"
    /\ \E p \in RawPaths, size \in {1, small_file_threshold + 1} :
          /\ sp_path' = p
          /\ file' = [name |-> FileName, size |-> size]
    /\ doc_before' = doc
    /\ pc' = "ensure_drive_id"
    /\ UNCHANGED <<site, doc, remote, chunk_size, walk, stream, reqs, result>>
    /\ UNCHANGED aux

NextAnyPath ==
    \/ UploadAnyPath
    \/ EnsureDriveId
    \/ GetAccessToken
    \/ EnsureFolder
    \/ EnsureFolderPathStep
    \/ UploadSmall
    \/ CreateUploadSession
    \/ UploadChunk
    \/ FinishLargeUpload

SpecAnyPath == Init /\ [][NextAnyPath]_vars

----------------------------------------------------------------------------
(* Calls on a Document in any order: delete(), set_metadata(),             *)
(* get_preauth_url(), get_preview_url(), download(), upload() and          *)
(* ensure_folder() and load_by_path(), each one step.  The Document is     *)
(* bound to an item, was constructed with a url, or with neither.          *)

\* A Document after upload("inv", f.bin) to the default library.
UploadedDocument ==
    BindUploaded([NewDocument EXCEPT !.drive_id = "drive-A"],
                 Dict("item-a", Absent), <<"inv", "f.bin">>).doc

OpStatuses == {200, 201, 204, 302, 401, 403, 404, 409, 500, NoAnswer}
Locations  == {Absent, "https://cdn/f.bin"}

\* The answers to an item request: status, content type, body, Location.
\* A body that is JSON comes with the JSON content type, a Location with a
\* redirect.
OpAnswers ==
    { a \in [status : OpStatuses, json : BOOLEAN,
             body : {TextBody, Dict("item-a", Absent)}, location : Locations] :
        /\ a.json <=> a.body.kind = "dict"
        /\ a.location # Absent => a.status = 302 }

\* The bodies of the preview endpoint: not JSON, JSON without getUrl, JSON
\* with getUrl.
PreviewBodies ==
    { [kind |-> "text", getUrl |-> Absent], [kind |-> "dict", getUrl |-> Absent],
      [kind |-> "dict", getUrl |-> "https://preview/f.bin"] }

\* The outcome of a call on Document d of Site s.
DocOutcome(s, d, raised, value, sent) ==
    [site |-> s, doc |-> d, raised |-> raised, value |-> value, sent |-> sent]

\* document.py:87-90: _ensure_drive_id()
DocEnsureDriveId(s, d, tok, st) ==
    IF d.drive_id # None
    THEN DocOutcome(s, d, NoException, d.drive_id, <<>>)
    ELSE LET r == GetDriveId(s, LibraryName(d), tok, st, tok, st) IN
         IF r.raised # NoException
         THEN DocOutcome(r.site, d, r.raised, None, r.sent)
         ELSE DocOutcome(r.site, [d EXCEPT !.drive_id = r.value], NoException,
                         r.value, r.sent)

\* document.py:41-43: a Document constructed with a url, and with a library
\* or without.
UrlDocument(url, library) ==
    [NewDocument EXCEPT !.url = url, !.library = library]

\* The urls given to a Document: of an item of the default library, of an
\* item of another library, of another site, of a library without an item.
DocUrls ==
    { SitePath \o <<"Documents", "inv", "f.bin">>,
      SitePath \o <<"Archive", "old.bin">>,
      <<"sites", "Other", "Documents", "f.bin">>,
      SitePath \o <<"Documents">> }

\* The Documents constructed with a url: without a library, and with one
\* that is not the url's.
UrlDocuments ==
    {UrlDocument(u, None) : u \in DocUrls}
        \cup {UrlDocument(SitePath \o <<"Documents", "inv", "f.bin">>, "Archive")}

\* document.py:92-114 on a url given by its segments: the url of an item of
\* the site continues the site's path with the library and the item's path.
DocParseUrl(url) ==
    IF ~StartsWith(url, SitePath) \/ Len(url) < Len(SitePath) + 2
    THEN [raised |-> PathError, library |-> None, path |-> NonePath]
    ELSE [raised |-> NoException, library |-> url[Len(SitePath) + 1],
          path |-> SubSeq(url, Len(SitePath) + 2, Len(url))]

\* The request is on /drives/{drive_id}/...
OnDrive(entry, drive_id) == entry @@ [drive |-> drive_id]

\* The answers to the GET of an item by its path: the item, a JSON object
\* without "id", a body that is not JSON, and the answers of a failure.
ResolveAnswers ==
    { [status |-> 200, json |-> TRUE, body |-> Dict("item-a", Absent)],
      [status |-> 200, json |-> TRUE, body |-> Dict(Absent, Absent)],
      [status |-> 200, json |-> FALSE, body |-> TextBody],
      [status |-> 403, json |-> TRUE, body |-> TextBody],
      [status |-> 404, json |-> TRUE, body |-> TextBody],
      [status |-> NoAnswer, json |-> FALSE, body |-> TextBody] }

\* document.py:130-132: the library of the url is adopted when the Document
\* has none.
AdoptLibrary(d, library) ==
    IF d.library = None THEN [d EXCEPT !.library = library] ELSE d

\* Mutant: the item is bound before its id is looked up.
BindResolved_FileFirst(d, item, path) ==
    LET d1 == [d EXCEPT !.file = item, !.item_path = path] IN
    IF item.kind # "dict"
    THEN [doc |-> d1, raised |-> Raise("TypeError", 0)]
    ELSE IF item.id = Absent
    THEN [doc |-> d1, raised |-> Raise("KeyError", 0)]
    ELSE [doc |-> [d1 EXCEPT !.item_id = item.id], raised |-> NoException]

\* document.py:138-140: item["id"] raises on a Response handle (TypeError)
\* and on a dict without "id" (KeyError), before anything is assigned.
BindResolved(d, item, path) ==
    IF item.kind # "dict"
    THEN [doc |-> d, raised |-> Raise("TypeError", 0)]
    ELSE IF item.id = Absent
    THEN [doc |-> d, raised |-> Raise("KeyError", 0)]
    ELSE [doc |-> [d EXCEPT !.item_id = item.id, !.item_path = path,
                            !.file = item],
          raised |-> NoException]

\* The one element of a set of one.
Only(S) == CHOOSE x \in S : TRUE

\* document.py:134-140 with 142-155: after _ensure_drive_id() ended as r
\* says, the token, the GET of the item at path, answered ans, and the
\* binding.
ItemFromPath(r, tok, path, ans) ==
    IF r.raised # NoException THEN r
    ELSE IF ~tok
    THEN [r EXCEPT !.raised = Raise("RvspConfigError", 0), !.value = None]
    ELSE LET sent == Append(r.sent,
                        OnDrive(Answered(
                            Request("GET_item", path, None, NoRange, -1,
                                    DefaultExpected, ans.status), ans.body),
                            r.value))
         IN  Only({ IF g.raised # NoException
                    THEN DocOutcome(r.site, r.doc, ExceptGraphError(g.raised),
                                    None, sent)
                    ELSE Only({ DocOutcome(r.site, b.doc, b.raised, None, sent) :
                                b \in {BindResolved(r.doc, g.value, path)} }) :
                    g \in {GraphRequest(DefaultExpected, FALSE, ans)} })

\* document.py:116-140: _ensure_item_from_url() on Document d of Site s;
\* ans is the answer to the GET of the item at its path.
EnsureItemFromUrl(s, d, tok, st, ans) ==
    IF d.item_id # None THEN DocOutcome(s, d, NoException, None, <<>>)
    ELSE IF d.url = NonePath THEN DocOutcome(s, d, PathError, None, <<>>)
    ELSE Only({ IF p.raised # NoException
                THEN DocOutcome(s, d, p.raised, None, <<>>)
                ELSE Only({ ItemFromPath(r, tok, p.path, ans) :
                            r \in {DocEnsureDriveId(
                                       s, AdoptLibrary(d, p.library), tok, st)} }) :
                p \in {DocParseUrl(d.url)} })

\* Mutant: the item is looked up at its url in every call.
DocResolve_Always(r, tok, ans) ==
    IF r.raised # NoException THEN r
    ELSE IF ~tok THEN [r EXCEPT !.raised = Raise("RvspConfigError", 0)]
    ELSE Only({ DocOutcome(e.site, e.doc, e.raised, r.value, r.sent \o e.sent) :
                e \in {EnsureItemFromUrl(r.site,
                                         [r.doc EXCEPT !.item_id = None], tok,
                                         200, ans)} })

\* document.py:379-385 (and 437-441, 462-466): after _ensure_drive_id()
\* ended as r says, the token, and the item when the Document has none.
\* The drive id obtained first stays the call's drive_id.
DocResolve(r, tok, ans) ==
    IF r.raised # NoException THEN r
    ELSE IF ~tok THEN [r EXCEPT !.raised = Raise("RvspConfigError", 0)]
    ELSE IF r.doc.item_id # None THEN r
    ELSE Only({ DocOutcome(e.site, e.doc, e.raised, r.value, r.sent \o e.sent) :
                e \in {EnsureItemFromUrl(r.site, r.doc, tok, 200, ans)} })

\* document.py:554-569: load_by_path(server_relative_url)
LoadByPath(s, d, url, tok, st, ans) ==
    EnsureItemFromUrl(s, [d EXCEPT !.url = url, !.item_id = None,
                                   !.item_path = NonePath, !.file = NoneValue],
                      tok, st, ans)

\* Mutant: a delete that succeeded unbinds the Document.
ItemRequest_Unbind(r, req, expected, ans) ==
    IF r.raised # NoException THEN r
    ELSE DocOutcome(r.site,
                    IF req = "DELETE_item" /\ ans.status \in expected
                    THEN [r.doc EXCEPT !.item_id = None, !.file = NoneValue]
                    ELSE r.doc,
                    ExceptGraphError(GraphRequest(expected, FALSE, ans).raised),
                    None,
                    Append(r.sent,
                           OnDrive(Answered(
                               Request(req, <<r.doc.item_id>>, None, NoRange,
                                       -1, expected, ans.status), ans.body),
                               r.value)))

\* document.py:443-453 (DELETE, expected 204) and 468-481 (PATCH, expected
\* 200): after the resolution ended as r says, one request on the item; a
\* GraphError is translated.
ItemRequest(r, req, expected, ans) ==
    IF r.raised # NoException THEN r
    ELSE DocOutcome(r.site, r.doc,
                    ExceptGraphError(GraphRequest(expected, FALSE, ans).raised),
                    None,
                    Append(r.sent,
                           OnDrive(Answered(
                               Request(req, <<r.doc.item_id>>, None, NoRange,
                                       -1, expected, ans.status), ans.body),
                               r.value)))

\* Mutant: the token is acquired before the Document is looked at.
DocStrict_TokenFirst(s, d, tok, st) ==
    IF ~tok
    THEN DocOutcome(s, d, Raise("RvspConfigError", 0), None, <<>>)
    ELSE IF d.item_id = None
    THEN DocOutcome(s, d, Raise("SharePointNotFoundError", 0), None, <<>>)
    ELSE DocEnsureDriveId(s, d, tok, st)

\* document.py:489-495 and 525-531: the Document must be bound; then the
\* token and the drive.
DocStrict(s, d, tok, st) ==
    IF d.item_id = None
    THEN DocOutcome(s, d, Raise("SharePointNotFoundError", 0), None, <<>>)
    ELSE IF ~tok
    THEN DocOutcome(s, d, Raise("RvspConfigError", 0), None, <<>>)
    ELSE DocEnsureDriveId(s, d, tok, st)

\* document.py:497-518: get_preauth_url() after lines 489-495 ended as r
\* says, with requests.get.
GetPreauthUrl(r, ans) ==
    IF r.raised # NoException THEN r
    ELSE LET sent == Append(r.sent,
                        OnDrive(Answered(
                            Request("GET_content", <<r.doc.item_id>>, None,
                                    NoRange, -1, {301, 302}, ans.status),
                            ans.body), r.value))
         IN  IF ans.status = NoAnswer
             THEN DocOutcome(r.site, r.doc, Raise("RequestException", 0), None,
                             sent)
             ELSE IF ans.status \notin {301, 302} \/ ans.location = Absent
             THEN DocOutcome(r.site, r.doc,
                             Raise("SharePointNotFoundError", ans.status), None,
                             sent)
             ELSE DocOutcome(r.site, r.doc, NoException, ans.location, sent)

\* document.py:533-552: get_preview_url() after lines 525-531 ended as r
\* says, with requests.post.
GetPreviewUrl(r, status, body) ==
    IF r.raised # NoException THEN r
    ELSE LET sent == Append(r.sent,
                        OnDrive(Request("POST_preview", <<r.doc.item_id>>, None,
                                        NoRange, -1, {200, 201}, status),
                                r.value))
         IN  IF status = NoAnswer
             THEN DocOutcome(r.site, r.doc, Raise("RequestException", 0), None,
                             sent)
             ELSE IF status \notin {200, 201}
             THEN DocOutcome(r.site, r.doc,
                             Raise("SharePointNotFoundError", status), None, sent)
             ELSE IF body.kind # "dict"
             THEN DocOutcome(r.site, r.doc, Raise("ValueError", 0), None, sent)
             ELSE IF body.getUrl = Absent
             THEN DocOutcome(r.site, r.doc,
                             Raise("SharePointNotFoundError", 0), None, sent)
             ELSE DocOutcome(r.site, r.doc, NoException, body.getUrl, sent)

\* document.py:385-431: download() after the resolution ended as r says; fin
\* is the status of the answer to the GET of the Location of a redirect.
Download(r, ans, fin) ==
    IF r.raised # NoException THEN r
    ELSE LET g == GraphRequest({200, 301, 302}, FALSE, ans)
             sent == Append(r.sent,
                        OnDrive(Answered(
                            Request("GET_content", <<r.doc.item_id>>, None,
                                    NoRange, -1, {200, 301, 302}, ans.status),
                            ans.body), r.value))
             followed == Append(sent,
                            Request("GET_location", <<r.doc.item_id>>,
                                    ans.location, NoRange, -1, 200..399, fin))
             end(raised, value, log) ==
                 DocOutcome(r.site, r.doc, raised, value, log)
         IN  IF g.raised # NoException
             THEN end(ExceptGraphError(g.raised), None, sent)
             ELSE IF g.value.kind # "Response"
             THEN end(Raise("RuntimeError", 0), None, sent)
             ELSE IF ans.status \notin {301, 302}
             THEN end(NoException, "content", sent)
             ELSE IF ans.location = Absent
             THEN end(Raise("SharePointNotFoundError", 0), None, sent)
             ELSE IF fin = NoAnswer
             THEN end(Raise("RequestException", 0), None, followed)
             ELSE IF fin = 404
             THEN end(Raise("SharePointNotFoundError", fin), None, followed)
             ELSE IF fin \in {401, 403}
             THEN end(Raise("SharePointPermissionError", fin), None, followed)
             ELSE IF fin >= 400
             THEN end(Raise("HTTPError", fin), None, followed)
             ELSE end(NoException, "content", followed)

\* What the PUT of upload() may hand to lines 368-373: an item, a JSON
\* object without "id", a Response handle.
UploadResults == {Dict("item-b", Absent), Dict(Absent, Absent), RawResponse}

\* What may end upload() or ensure_folder() between the token and the
\* return: nothing, a translated GraphError, a transport failure.
WalkFaults ==
    {NoException, TranslateGraphError(GraphError(403, TextBody)),
     TranslateGraphError(GraphError(409, TextBody)),
     Raise("RequestException", 0)}

\* document.py:333-373: upload(sp_path, file) in one step, after
\* _ensure_drive_id() ended as r says: the token, the folder walk and the
\* transfer, which raise fault or hand resp_json to the binding.
UploadCall(r, tok, folder_parts, fault, resp_json) ==
    IF r.raised # NoException THEN r
    ELSE IF ~tok THEN [r EXCEPT !.raised = Raise("RvspConfigError", 0)]
    ELSE IF fault # NoException THEN [r EXCEPT !.raised = fault]
    ELSE LET b == BindUploaded(r.doc, resp_json,
                               ItemPath(folder_parts, FileName))
         IN  DocOutcome(r.site, b.doc, b.raised,
                        IF b.raised = NoException THEN b.doc.url ELSE None,
                        r.sent)

\* document.py:299-317: ensure_folder(path) in one step, after
\* _ensure_drive_id() ended as r says.
EnsureFolderCalled(r, tok, folder_parts, fault) ==
    IF r.raised # NoException THEN r
    ELSE IF ~tok THEN [r EXCEPT !.raised = Raise("RvspConfigError", 0)]
    ELSE IF fault # NoException /\ folder_parts # <<>>
    THEN [r EXCEPT !.raised = fault]
    ELSE [r EXCEPT !.value = Join(folder_parts, "/")]

InitDoc ==
    /\ site = NewSite
    /\ doc \in {NewDocument, ListedDocument, UploadedDocument}
    /\ remote = {}
    /\ UploadIdle
    /\ doc_before = doc
    /\ AuxInit

\* The call named op on the Document, with the url arg or without one,
\* ended as r says.
DocCalledWith(op, arg, r) ==
    /\ site' = r.site
    /\ doc' = r.doc
    /\ call' = [op |-> op, arg |-> arg, bound |-> doc.item_id # None]
    /\ out' = [raised |-> r.raised, value |-> r.value, sent |-> r.sent]
    /\ UNCHANGED <<remote, pc, args, walk, stream, reqs, result, doc_before,
                   remote_files, conn, hist, threads>>

\* The answers to the requests of _ensure_drive_id(); they matter only to
\* a Document that has no drive id yet (document.py:88).
DriveAnswers == IF doc.drive_id = None THEN SiteStatuses ELSE {200}

DocCalled(op, r) == DocCalledWith(op, NonePath, r)

\* The answers to the GET of the item at its path; they matter only to a
\* Document that has a url and no item (document.py:121-124).
ItemAnswers ==
    IF doc.item_id = None /\ doc.url # NonePath
    THEN ResolveAnswers ELSE {CHOOSE a \in ResolveAnswers : a.status = 404}

\* The outcomes of lines 437-441 (and 379-385, 462-466) on the Document.
Resolved(tok, st) ==
    {DocResolve(r, tok, ia) : r \in {DocEnsureDriveId(site, doc, tok, st)},
                              ia \in ItemAnswers}

DocDelete ==
    \E tok \in BOOLEAN, st \in DriveAnswers, ans \in OpAnswers :
        /\ ans.location = Absent
        /\ \E r0 \in Resolved(tok, st) :
           \E r \in {ItemRequest(r0, "DELETE_item", {204}, ans)} :
               DocCalled("delete", r)

DocSetMetadata ==
    \E tok \in BOOLEAN, st \in DriveAnswers, ans \in OpAnswers :
        /\ ans.location = Absent
        /\ \E r0 \in Resolved(tok, st) :
           \E r \in {ItemRequest(r0, "PATCH_fields", {200}, ans)} :
               DocCalled("set_metadata", r)

DocGetPreauthUrl ==
    \E tok \in BOOLEAN, st \in DriveAnswers, ans \in OpAnswers :
        /\ ans.json
        /\ \E r0 \in {DocStrict(site, doc, tok, st)} :
           \E r \in {GetPreauthUrl(r0, ans)} :
               DocCalled("get_preauth_url", r)

DocGetPreviewUrl ==
    \E tok \in BOOLEAN, st \in DriveAnswers, status \in OpStatuses,
       body \in PreviewBodies :
        \E r0 \in {DocStrict(site, doc, tok, st)} :
        \E r \in {GetPreviewUrl(r0, status, body)} :
            DocCalled("get_preview_url", r)

DocDownload ==
    \E tok \in BOOLEAN, st \in DriveAnswers, ans \in OpAnswers :
        \E fin \in IF ans.status \in {301, 302} /\ ans.location # Absent
                   THEN OpStatuses ELSE {NoAnswer} :
        \E r0 \in Resolved(tok, st) :
        \E r \in {Download(r0, ans, fin)} :
            DocCalled("download", r)

DocUpload ==
    \E tok \in BOOLEAN, st \in DriveAnswers, folder_parts \in SpPaths,
       fault \in WalkFaults, resp_json \in UploadResults :
        \E r0 \in {DocEnsureDriveId(site, doc, tok, st)} :
        \E r \in {UploadCall(r0, tok, folder_parts, fault, resp_json)} :
            DocCalled("upload", r)

DocEnsureFolder ==
    \E tok \in BOOLEAN, st \in DriveAnswers, folder_parts \in SpPaths,
       fault \in WalkFaults :
        \E r0 \in {DocEnsureDriveId(site, doc, tok, st)} :
        \E r \in {EnsureFolderCalled(r0, tok, folder_parts, fault)} :
            DocCalled("ensure_folder", r)

DocLoadByPath ==
    \E url \in DocUrls, tok \in BOOLEAN, st \in DriveAnswers,
       ia \in ResolveAnswers :
        \E r \in {LoadByPath(site, doc, url, tok, st, ia)} :
            DocCalledWith("load_by_path", url, r)

NextDoc ==
    \/ DocDelete
    \/ DocSetMetadata
    \/ DocGetPreauthUrl
    \/ DocGetPreviewUrl
    \/ DocDownload
    \/ DocUpload
    \/ DocEnsureFolder

SpecDoc == InitDoc /\ [][NextDoc]_vars

\* The calls that need the item of a Document, on Documents constructed
\* with a url or without, and load_by_path().
InitLazy ==
    /\ site = NewSite
    /\ doc \in {NewDocument, ListedDocument} \cup UrlDocuments
    /\ remote = {}
    /\ UploadIdle
    /\ doc_before = doc
    /\ AuxInit

NextLazy ==
    \/ DocLoadByPath
    \/ DocDelete
    \/ DocSetMetadata
    \/ DocGetPreauthUrl
    \/ DocGetPreviewUrl
    \/ DocDownload

SpecLazy == InitLazy /\ [][NextLazy]_vars

\* C12: at every remote operation of Site and Document (site and drive
\* resolution, delete, set_metadata, get_preauth_url, get_preview_url,
\* download) an answer with an unexpected status ends the call with
\* PermissionDenied for 401 and 403, NotFound for 404, Conflict for 409, and
\* for any other status with the GraphError that carries the status and the
\* body.
C12_UniformMapping ==
    (call.op # "none" /\ out.sent # <<>>) =>
        LET e == Last(out.sent) IN
        (e.status # NoAnswer /\ e.status \notin e.expected) =>
            /\ e.status \in {401, 403} =>
                  out.raised.exc = "SharePointPermissionError"
            /\ e.status = 404 => out.raised.exc = "SharePointNotFoundError"
            /\ e.status = 409 => out.raised.exc = "SharePointConflictError"
            /\ e.status \notin {401, 403, 404, 409} =>
                  /\ out.raised.exc = "GraphError"
                  /\ out.raised.status = e.status

\* What holds of the calls that go through graph_request: delete and
\* set_metadata, and the site and drive resolution in every call.
C12_GraphRequestCalls ==
    (call.op # "none" /\ out.sent # <<>>
       /\ Last(out.sent).req \in {"GET_site", "GET_drives", "DELETE_item",
                                  "PATCH_fields"}) =>
        LET e == Last(out.sent) IN
        (e.status # NoAnswer /\ e.status \notin e.expected) =>
            /\ e.status \in {401, 403} =>
                  out.raised.exc = "SharePointPermissionError"
            /\ e.status = 404 => out.raised.exc = "SharePointNotFoundError"
            /\ e.status = 409 => out.raised.exc = "SharePointConflictError"
            /\ e.status \notin {401, 403, 404, 409} =>
                  /\ out.raised.exc = "GraphError"
                  /\ out.raised.status = e.status

\* get_preauth_url on a bound Document was answered 403 and raised NotFound.
C12_Witness ==
    /\ call.op = "get_preauth_url"
    /\ out.sent # <<>>
    /\ Last(out.sent).status = 403
    /\ out.raised.exc = "SharePointNotFoundError"

\* C28: no call of upload, download, delete, set_metadata, get_preauth_url,
\* get_preview_url or ensure_folder, returning or raising, leaves item_id
\* unset on a Document whose item_id was set; only load_by_path may.
C28_Step ==
    (doc.item_id # None /\ call'.op # "load_by_path") => doc'.item_id # None

C28_ItemIdKept == [][C28_Step]_vars

\* A delete answered 204 returned, and the Document still has its item_id.
C28_Witness ==
    /\ call.op = "delete"
    /\ out.raised = NoException
    /\ out.sent # <<>>
    /\ Last(out.sent).status = 204
    /\ doc.item_id # None

\* An upload on a bound Document whose answer had no "id" raised, and the
\* Document still has the item_id it had.
C28_UploadWitness ==
    /\ call.op = "upload"
    /\ out.raised.exc = "KeyError"
    /\ doc.item_id = "item-old"

----------------------------------------------------------------------------
(* Lazy and strict binding (SpecLazy) *)

\* The requests on /drives/{drive_id}/items/{item_id}.
ItemReqs == {"DELETE_item", "PATCH_fields", "GET_content", "POST_preview"}

Lazy == {"download", "delete", "set_metadata"}

\* The positions in log of the requests named in reqs.
Sent(log, names) == {i \in 1..Len(log) : log[i].req \in names}

\* A lazy call on a Document with a url and no item sends a request on an
\* item only after the GET of the url's item returned it, and on that item.
C31_ResolvedFirst ==
    (call'.op \in Lazy /\ doc.item_id = None /\ doc.url # NonePath) =>
        \A i \in Sent(out'.sent, ItemReqs) :
            /\ doc'.item_id # None
            /\ out'.sent[i].path = <<doc'.item_id>>
            /\ \E j \in Sent(out'.sent, {"GET_item"}) :
                   /\ j < i
                   /\ out'.sent[j].status = 200
                   /\ out'.sent[j].resp.id = doc'.item_id

\* A lazy call on a bound Document sends no GET of an item by its path.
C31_BoundAsIs ==
    (call'.op \in Lazy /\ doc.item_id # None) =>
        Sent(out'.sent, {"GET_item"}) = {}

\* The original third part: a Document with neither url nor item.
C31_Unbound ==
    (call'.op \in Lazy /\ doc.item_id = None /\ doc.url = NonePath) =>
        /\ out'.raised = PathError
        /\ Sent(out'.sent, ItemReqs \cup {"GET_item"}) = {}

\* The third part as the code has it: the drive id and the token come
\* first, and a failure of theirs ends the call.
C31_UnboundAfterDrive ==
    (call'.op \in Lazy /\ doc.item_id = None /\ doc.url = NonePath) =>
        /\ out'.raised # NoException
        /\ doc'.drive_id # None /\ out'.raised.exc # "RvspConfigError"
               => out'.raised = PathError
        /\ out'.raised # PathError
               => \/ out'.raised.exc = "RvspConfigError"
                  \/ /\ out'.sent # <<>>
                     /\ Last(out'.sent).req \in {"GET_site", "GET_drives"}
        /\ Sent(out'.sent, ItemReqs \cup {"GET_item"}) = {}

\* C31 as stated: download(), delete() and set_metadata() resolve lazily:
\* with a url and no item they first resolve the url to an item and only
\* then send the request on that item; on a bound Document they send no
\* resolution request; with neither url nor item they fail with PathError
\* and send no request on any item.
C31_PathErrorFirst ==
    [][C31_ResolvedFirst /\ C31_BoundAsIs /\ C31_Unbound]_vars

\* C31, amended: the same, but with neither url nor item they fail with
\* PathError once the drive id and the token were obtained, and with the
\* error of that step otherwise; they send no request on any item.
C31_LazyResolve ==
    [][C31_ResolvedFirst /\ C31_BoundAsIs /\ C31_UnboundAfterDrive]_vars

\* delete() on a Document that had a url and no item: the item was looked
\* up at its path, then deleted by its id.
C31_Witness ==
    /\ call.op = "delete"
    /\ ~call.bound
    /\ out.raised = NoException
    /\ Len(out.sent) >= 2
    /\ out.sent[Len(out.sent) - 1].req = "GET_item"
    /\ Last(out.sent).req = "DELETE_item"
    /\ Last(out.sent).path = <<doc.item_id>>

\* download() on a Document with neither url nor item ended with
\* PathError after the drive was looked up.
C31_UnboundWitness ==
    /\ call.op = "download"
    /\ doc.url = NonePath
    /\ out.raised = PathError
    /\ out.sent # <<>>
    /\ Last(out.sent).req = "GET_drives"

\* download() on a Document with neither url nor item ended with the error
\* of the site lookup.
C31_DriveErrorWitness ==
    /\ call.op = "download"
    /\ doc.url = NonePath
    /\ doc.item_id = None
    /\ out.raised.exc = "SharePointPermissionError"

\* C32: get_preauth_url() and get_preview_url() on a Document without
\* item_id, with a url or without, fail with NotFound, send no request,
\* acquire no token (they fail the same way when no token can be had) and
\* leave the Document and the Site as they were.
C32_Step ==
    (call'.op \in {"get_preauth_url", "get_preview_url"} /\ doc.item_id = None)
        => /\ out'.raised = Raise("SharePointNotFoundError", 0)
           /\ out'.sent = <<>>
           /\ doc' = doc
           /\ site' = site

C32_StrictBound == [][C32_Step]_vars

\* get_preview_url() on a Document with a url and no item raised NotFound.
C32_Witness ==
    /\ call.op = "get_preview_url"
    /\ ~call.bound
    /\ doc.url # NonePath
    /\ doc.item_id = None
    /\ out.raised.exc = "SharePointNotFoundError"
    /\ out.sent = <<>>

\* The content request of the download() called last, and the GETs of a
\* Location that followed it.
ContentRequest == out.sent[CHOOSE i \in Sent(out.sent, {"GET_content"}) : TRUE]
Followed       == Sent(out.sent, {"GET_location"})

Downloaded ==
    call.op = "download" /\ Sent(out.sent, {"GET_content"}) # {}

\* A redirect is followed by one GET of its Location, whose answer decides:
\* the body, NotFound for 404, PermissionDenied for 401 and 403.  A redirect
\* without Location is NotFound.
C34_Redirect ==
    (Downloaded /\ ContentRequest.status \in {301, 302}) =>
        /\ Cardinality(Followed) <= 1
        /\ Followed = {} => out.raised.exc = "SharePointNotFoundError"
        /\ \A i \in Followed :
              /\ i = Len(out.sent)
              /\ out.sent[i].url \in Locations \ {Absent}
              /\ "drive" \notin DOMAIN out.sent[i]
              /\ out.sent[i].status = 200
                    => out.raised = NoException /\ out.value = "content"
              /\ out.sent[i].status = 404
                    => out.raised.exc = "SharePointNotFoundError"
              /\ out.sent[i].status \in {401, 403}
                    => out.raised.exc = "SharePointPermissionError"

\* The content request answered 404 is NotFound, 401 or 403
\* PermissionDenied.
C34_Translated ==
    Downloaded =>
        /\ ContentRequest.status = 404
              => out.raised.exc = "SharePointNotFoundError"
        /\ ContentRequest.status \in {401, 403}
              => out.raised.exc = "SharePointPermissionError"

\* C39: download() of a bound Document returns the body whenever the
\* content request is answered 200, whatever the content type of the file.
C39_BodyOn200 ==
    (Downloaded /\ ContentRequest.status = 200) =>
        out.raised = NoException /\ out.value = "content"

\* What the code does on 200: the body of an answer that graph_request left
\* undecoded, and RuntimeError for one it decoded.
C39_BodyUndecoded ==
    (Downloaded /\ ContentRequest.status = 200) =>
        IF ContentRequest.resp.kind = "dict"
        THEN out.raised = Raise("RuntimeError", 0)
        ELSE out.raised = NoException /\ out.value = "content"

\* download() of a file that is JSON, answered 200.
C39_Witness ==
    /\ Downloaded
    /\ call.bound
    /\ ContentRequest.status = 200
    /\ ContentRequest.resp.kind = "dict"

\* C34: download() follows a 301/302 answer by one separate GET of the
\* Location, without the drive or the token, and returns that answer's
\* body; 404 on either request is NotFound, 401/403 on either is
\* PermissionDenied, a redirect without Location is NotFound; a direct 200
\* returns its body.
C34_Download ==
    /\ C34_Redirect
    /\ C34_Translated
    /\ (Downloaded /\ ContentRequest.status = 200) => out.raised = NoException

\* What holds: all of it for the answers that graph_request leaves
\* undecoded, those without the JSON content type.
C34_UndecodedAnswers ==
    (Downloaded /\ ContentRequest.resp.kind = "dict") \/ C34_Download

\* A download whose redirect was followed and returned the body.
C34_Witness ==
    /\ Downloaded
    /\ ContentRequest.status = 302
    /\ Followed # {}
    /\ out.raised = NoException
    /\ out.value = "content"

\* The library named in the url of the Document.
UrlLibrary == DocParseUrl(doc.url).library

\* The call resolved the url of the Document and bound it.
BoundByUrl ==
    /\ call.op \in Lazy \cup {"load_by_path"}
    /\ Sent(out.sent, {"GET_item"}) # {}
    /\ doc.item_id # None

\* C37: a Document constructed without a library and bound by resolving a
\* url resolves in the drive of the library named in that url, and has that
\* drive for its later requests, whichever call resolved the url, also
\* when load_by_path() binds it to a url in another library.
C37_UrlLibraryDrive ==
    (doc_before.library = None /\ BoundByUrl) =>
        /\ doc.drive_id = FirstDrive(UrlLibrary)
        /\ \A i \in 1..Len(out.sent) :
              "drive" \in DOMAIN out.sent[i]
                  => out.sent[i].drive = FirstDrive(UrlLibrary)

\* What holds: the drive is that of the url's library when the Document had
\* no drive id and load_by_path() resolved the url.
C37_FirstLoadByPath ==
    [][(doc.library = None /\ doc.drive_id = None
          /\ call'.op = "load_by_path" /\ doc'.item_id # None)
       => doc'.drive_id = FirstDrive(DocParseUrl(doc'.url).library)]_vars

\* download() bound a Document to an item of the library Archive.
C37_Witness ==
    /\ doc_before.library = None
    /\ BoundByUrl
    /\ call.op = "download"
    /\ UrlLibrary = "Archive"

\* C40: load_by_path(u) ends either bound, with url = u and item_id,
\* item_path and file of the item that the GET at u's path returned, or
\* failed, with url = u and item_id, item_path and file unset, whatever the
\* Document was bound to before.
C40_Step ==
    call'.op = "load_by_path" =>
        /\ call'.arg = doc'.url
        /\ out'.raised = NoException =>
              /\ out'.sent # <<>>
              /\ Last(out'.sent).req = "GET_item"
              /\ Last(out'.sent).path = DocParseUrl(call'.arg).path
              /\ doc'.item_id \notin {None, Absent}
              /\ doc'.item_id = Last(out'.sent).resp.id
              /\ doc'.file = Last(out'.sent).resp
              /\ doc'.item_path = Last(out'.sent).path
        /\ out'.raised # NoException =>
              /\ doc'.item_id = None
              /\ doc'.item_path = NonePath
              /\ doc'.file = NoneValue

C40_LoadByPath == [][C40_Step]_vars

\* load_by_path() on a bound Document failed on the GET of the item, and
\* the Document has the new url and no item.
C40_Witness ==
    /\ call.op = "load_by_path"
    /\ call.bound
    /\ out.raised.exc = "SharePointNotFoundError"
    /\ out.sent # <<>>
    /\ Last(out.sent).req = "GET_item"
    /\ doc.url = call.arg
    /\ doc.item_id = None

\* load_by_path() on a bound Document bound it to another item.
C40_ReboundWitness ==
    /\ call.op = "load_by_path"
    /\ call.bound
    /\ out.raised = NoException
    /\ doc_before.item_id = "item-old"
    /\ doc.item_id = "item-a"

----------------------------------------------------------------------------
(* from_drive_item (SpecItem).  Paths and urls are path strings, as in     *)
(* SpecUrl.                                                                *)

\* The parentReference.path of a listed item, as Graph gives it: none, of an
\* item of the root ("/drives/d/root:"), the same with "/" at its end, and
\* of items of folders A and A/B.
ParentPaths ==
    { <<Absent>>,
      <<"/", "drives", "/", "d", "/", "root:">>,
      <<"/", "drives", "/", "d", "/", "root:", "/">>,
      <<"/", "drives", "/", "d", "/", "root:", "/", "A">>,
      <<"/", "drives", "/", "d", "/", "root:", "/", "A", "/", "B">> }

\* The listed items: id, name (none, empty, f.bin), parentReference.path and
\* parentReference.driveId.
DriveItems ==
    [id : ItemIds, name : {Absent, "", "f.bin"}, parent_path : ParentPaths,
     driveId : {Absent, "drive-A"}]

\* document.py:599-600: marker in parent_path, for marker = "root:/"
HasMarker(parent_path) ==
    \E i \in 1..(Len(parent_path) - 1) :
        parent_path[i] = "root:" /\ parent_path[i + 1] = "/"

\* Mutant: the parent path is taken whole.
AfterMarker_Whole(parent_path) == parent_path

\* document.py:601: parent_path.split(marker, 1)[1]
AfterMarker(parent_path) ==
    LET at == {i \in 1..(Len(parent_path) - 1) :
                  parent_path[i] = "root:" /\ parent_path[i + 1] = "/"}
        first == CHOOSE i \in at : \A j \in at : i <= j
    IN  SubSeq(parent_path, first + 2, Len(parent_path))

\* document.py:596-604: the path of the item in its drive, NonePath when
\* it cannot be told.
DerivedItemPath(item) ==
    IF item.parent_path \in {<<Absent>>, <<>>} \/ Falsy(item.name)
          \/ item.name = Absent
    THEN NonePath
    ELSE IF ~HasMarker(item.parent_path) THEN NonePath
    ELSE LET rel == Strip(AfterMarker(item.parent_path), {"/"}) IN
         IF rel # <<>> THEN rel \o <<"/", item.name>> ELSE <<item.name>>

\* document.py:61-63 for the Document d of Site s.
LibraryNameOf(s, d) ==
    IF Falsy(d.library) THEN s.default_library ELSE d.library

\* document.py:572-612: from_drive_item(site, item, library, drive_id)
FromDriveItem(s, item, library, drive_id) ==
    LET d == [NewDocument EXCEPT
                 !.library = library, !.file = item, !.item_id = item.id,
                 !.drive_id = IF ~Falsy(drive_id) THEN drive_id
                              ELSE IF item.driveId = Absent THEN None
                              ELSE item.driveId,
                 !.item_path = DerivedItemPath(item)]
    IN  IF d.item_path # NonePath /\ ~Falsy(LibraryNameOf(s, d))
        THEN [d EXCEPT !.url = ServerRelativeUrl(
                                   s, [d EXCEPT !.library = LibraryNameOf(s, d)],
                                   d.item_path)]
        ELSE d

\* The Sites: with the default library of the class, and with none (the
\* environment variable of sharepoint/__init__.py:12 unset or empty).
ItemSites ==
    { NewSite @@ [site_path |-> <<"/", "sites", "/", "Finance">>,
                  default_library |-> l] : l \in {DefaultLibrary, ""} }

InitItem ==
    /\ site \in ItemSites
    /\ doc = NewDocument
    /\ remote = {}
    /\ UploadIdle
    /\ doc_before = doc
    /\ AuxInit

\* SharepointDocument.from_drive_item(site, item, library, drive_id) is
\* called and returns the Document; nothing is sent.
ItemListed ==
    \E item \in DriveItems, library \in {None, "Archive"},
       drive_id \in {None, "drive-B"} :
        /\ doc' = FromDriveItem(site, item, library, drive_id)
        /\ call' = [op |-> "from_drive_item", item |-> item,
                    library |-> library, drive_id |-> drive_id]
        /\ out' = [raised |-> NoException, value |-> None, sent |-> <<>>]
        /\ UNCHANGED <<site, remote, pc, args, walk, stream, reqs, result,
                       doc_before, remote_files, conn, hist, threads>>

NextItem == ItemListed

SpecItem == InitItem /\ [][NextItem]_vars

\* The item given has a name, and a parent path with the marker "root:/".
C33_Derivable ==
    /\ call.item.name \notin {Absent, ""}
    /\ call.item.parent_path # <<Absent>>
    /\ \E i \in 1..(Len(call.item.parent_path) - 1) :
           SubSeq(call.item.parent_path, i, i + 1) = <<"root:", "/">>

\* The path after the first "root:/" of the parent path of the item given.
C33_Rel ==
    LET p == call.item.parent_path
        i == CHOOSE k \in 1..(Len(p) - 1) :
                 /\ SubSeq(p, k, k + 1) = <<"root:", "/">>
                 /\ \A j \in 1..(k - 1) : SubSeq(p, j, j + 1) # <<"root:", "/">>
    IN  SubSeq(p, i + 2, Len(p))

\* Nothing is sent; item_id and file are the item's; item_path is
\* "<path after root:/>/<name>", or the name when that path is empty,
\* exactly when the item has a name and its parent path has the marker.
C33_ItemPath ==
    call.op = "from_drive_item" =>
        /\ out.sent = <<>>
        /\ site \in ItemSites
        /\ doc.item_id = call.item.id
        /\ doc.file = call.item
        /\ IF C33_Derivable
           THEN doc.item_path = IF C33_Rel = <<>> THEN <<call.item.name>>
                                ELSE C33_Rel \o <<"/", call.item.name>>
           ELSE doc.item_path = NonePath

\* The url of the Document is that of its item_path in its library.
C33_Url ==
    (call.op = "from_drive_item" /\ doc.url # NonePath) =>
        doc.url = <<"/", "sites", "/", "Finance", "/">>
                      \o <<IF call.library = None THEN site.default_library
                           ELSE call.library>>
                      \o <<"/">> \o doc.item_path

\* C33 as stated: from_drive_item binds without a request; item_id and file
\* are the item's; item_path is derived exactly when the item has a name
\* and its parent path has the marker "root:/"; url is synthesized exactly
\* when item_path was derived.
C33_UrlWhenDerived ==
    /\ C33_ItemPath
    /\ C33_Url
    /\ call.op = "from_drive_item" =>
          (doc.url # NonePath <=> doc.item_path # NonePath)

\* C33, amended: the same, but url is synthesized exactly when item_path
\* was derived and the Document has a library name, its own or the default
\* library of the Site.
C33_FromDriveItem ==
    /\ C33_ItemPath
    /\ C33_Url
    /\ call.op = "from_drive_item" =>
          (doc.url # NonePath <=>
              /\ doc.item_path # NonePath
              /\ ~(call.library = None /\ site.default_library = ""))

\* An item of folder A/B was listed: item_path and url are derived.
C33_Witness ==
    /\ call.op = "from_drive_item"
    /\ doc.item_path = <<"A", "/", "B", "/", "f.bin">>
    /\ doc.url = <<"/", "sites", "/", "Finance", "/", "Documents", "/",
                   "A", "/", "B", "/", "f.bin">>
    /\ doc.item_id = call.item.id

\* An item of the root whose parent path is "/drives/d/root:" was listed:
\* neither item_path nor url is derived.
C33_NoMarkerWitness ==
    /\ call.op = "from_drive_item"
    /\ call.item.name = "f.bin"
    /\ call.item.parent_path = <<"/", "drives", "/", "d", "/", "root:">>
    /\ doc.item_path = NonePath
    /\ doc.url = NonePath

\* An item was listed on a Site without default library: item_path is
\* derived, url is not.
C33_NoLibraryWitness ==
    /\ call.op = "from_drive_item"
    /\ doc.item_path = <<"f.bin">>
    /\ doc.url = NonePath

----------------------------------------------------------------------------
(* get_drive_id (SpecSite) *)

\* The library that get_drive_id(call'.arg) looks up.
C36_Lib == IF call'.arg \in {None, ""} THEN DefaultLibrary ELSE call'.arg

\* get_drive_id(lib) that returns after listing the drives returns the
\* first drive named lib of the listing and adds lib -> id to the cache;
\* one that returns without listing returns the entry of lib; no other
\* entry is written.
C36_Drive ==
    (call'.op = "get_drive_id" /\ out'.raised = NoException) =>
        /\ IF Sent(out'.sent, {"GET_drives"}) # {}
           THEN /\ \E i \in 1..Len(call'.drives) :
                      /\ call'.drives[i].name = C36_Lib
                      /\ call'.drives[i].id = out'.value
                      /\ \A j \in 1..(i - 1) : call'.drives[j].name # C36_Lib
                /\ C36_Lib \notin DOMAIN site.drive_cache
           ELSE /\ out'.sent = <<>>
                /\ C36_Lib \in DOMAIN site.drive_cache
                /\ out'.value = site.drive_cache[C36_Lib]
        /\ out'.value # None
        /\ DOMAIN site'.drive_cache = DOMAIN site.drive_cache \cup {C36_Lib}
        /\ site'.drive_cache[C36_Lib] = out'.value
        /\ \A l \in DOMAIN site.drive_cache :
              site'.drive_cache[l] = site.drive_cache[l]

\* A get_drive_id() that raises writes no entry.
C36_NoEntryOnFailure ==
    (call'.op = "get_drive_id" /\ out'.raised # NoException) =>
        site'.drive_cache = site.drive_cache

\* The site is looked up at most once in a call, and never again once its
\* id is known.
C36_SiteOnce ==
    /\ Cardinality(Sent(out'.sent, {"GET_site"})) <= 1
    /\ site.site_id # None => Sent(out'.sent, {"GET_site"}) = {}
    /\ site.site_id # None => site'.site_id = site.site_id

\* C36: get_drive_id(lib) returns the id of the first drive, in listing
\* order, whose name equals lib (the default library of the Site when no
\* name is given), stores exactly the entry lib -> id in the drive cache and
\* writes no other entry; the site id is resolved at most once per Site.
C36_GetDriveId ==
    [][C36_Drive /\ C36_NoEntryOnFailure /\ C36_SiteOnce]_vars

\* get_drive_id() without a name, on the listing with two drives named
\* Documents, returned the first of them and stored it under Documents,
\* beside the entry of Archive.
C36_Witness ==
    /\ call.op = "get_drive_id"
    /\ call.arg = None
    /\ call.drives = DrivesRecreated
    /\ out.raised = NoException
    /\ out.value = "drive-D"
    /\ DOMAIN site.drive_cache = {"Documents", "Archive"}
    /\ site.drive_cache["Documents"] = "drive-D"

----------------------------------------------------------------------------
(* A failed upload() (Spec) *)

\* C38: when upload() fails, for whatever reason, url, item_id, item_path
\* and file of the Document are what they were before the call.
C38_FailureFrame ==
    (pc = "done" /\ result.state = "raised") =>
        /\ doc.url = doc_before.url
        /\ doc.item_id = doc_before.item_id
        /\ doc.item_path = doc_before.item_path
        /\ doc.file = doc_before.file

\* What holds: url, item_id and item_path are kept by every failure, and
\* file by every failure but that of the lookup of "id" in the accepted
\* answer.
C38_FailureKeepsItem ==
    (pc = "done" /\ result.state = "raised") =>
        /\ doc.url = doc_before.url
        /\ doc.item_id = doc_before.item_id
        /\ doc.item_path = doc_before.item_path
        /\ result.exc \notin {"KeyError", "TypeError"}
              => doc.file = doc_before.file

\* An upload whose content PUT was answered 403 failed, and the Document
\* is as before.
C38_Witness ==
    /\ pc = "done"
    /\ result.exc = "SharePointPermissionError"
    /\ reqs # <<>>
    /\ Last(reqs).req = "PUT_content"
    /\ doc.drive_id # None
    /\ [doc EXCEPT !.drive_id = None] = [doc_before EXCEPT !.drive_id = None]

----------------------------------------------------------------------------
(* sp_upload_async (SpecAsync): the caller, and one worker thread per      *)
(* call.  The frame of a worker: where it stands, its arguments, whether   *)
(* the local file exists, how often it connected and called upload(), and  *)
(* the step that raised.                                                   *)

MaxAsync == 2

Workers == 1..MaxAsync

\* The steps of the worker that may raise.
WorkerSteps == {"connect", "resolve", "folder", "upload", "remove"}

\* utils/background.py:20 and 48-49: the thread of call t was started with
\* the arguments of the call; the file at file_path exists.
StartedFrame(t, sp_folder) ==
    [pc |-> "started", file_path |-> t, sp_path |-> sp_folder, local |-> TRUE,
     connects |-> 0, uploads |-> 0, failed |-> "none"]

\* utils/background.py:44-45: `except Exception as e: print(...)`; the
\* worker ends.
Caught(f, step) == [f EXCEPT !.pc = "failed", !.failed = step]

\* utils/background.py:22-26: GraphConnection(...); ok tells whether the
\* constructor returned.
AfterConnect(f, ok) ==
    LET g == [f EXCEPT !.connects = @ + 1] IN
    IF ok THEN [g EXCEPT !.pc = "connected"] ELSE Caught(g, "connect")

\* Mutant: the local file is removed whether or not upload() returned.
AfterUpload_RemoveAlways(f, fault) ==
    LET g == [f EXCEPT !.uploads = @ + 1, !.local = FALSE] IN
    IF fault = "none" THEN [g EXCEPT !.pc = "removed"] ELSE Caught(g, fault)

\* utils/background.py:28-40: the Site, the Document and doc.upload(sp_path,
\* LocalFile.from_path(file_path)); fault names the step of upload() that
\* raised, "none" when it returned.
AfterUpload(f, fault) ==
    LET g == [f EXCEPT !.uploads = @ + 1] IN
    IF fault = "none" THEN [g EXCEPT !.pc = "uploaded"] ELSE Caught(g, fault)

\* utils/background.py:42-43: os.remove(file_path) and the message; ok
\* tells whether os.remove returned.
AfterRemove(f, ok) ==
    IF ok THEN [f EXCEPT !.pc = "removed", !.local = FALSE]
    ELSE Caught(f, "remove")

InitAsync ==
    /\ site = NewSite
    /\ doc = NewDocument
    /\ remote = {}
    /\ UploadIdle
    /\ doc_before = doc
    /\ remote_files = {}
    /\ conn = Connected
    /\ call = [op |-> "none", made |-> 0, pending |-> FALSE]
    /\ out = NoOutcome
    /\ hist = {}
    /\ threads = <<>>

AsyncFrame == <<site, doc, remote, pc, args, walk, stream, reqs, result,
                doc_before, remote_files, conn, hist>>

\* sp_upload_async(file_path, sp_path) is called: the thread is created and
\* started (utils/background.py:47-49).
AsyncCall ==
    /\ ~call.pending
    /\ call.made < MaxAsync
    /\ \E sp_folder \in SpPaths :
          threads' = Append(threads, StartedFrame(call.made + 1, sp_folder))
    /\ call' = [op |-> "sp_upload_async", made |-> call.made + 1,
                pending |-> TRUE]
    /\ UNCHANGED out
    /\ UNCHANGED AsyncFrame

\* sp_upload_async returns None to its caller.
AsyncReturn ==
    /\ call.pending
    /\ call' = [call EXCEPT !.pending = FALSE]
    /\ out' = [raised |-> NoException, value |-> None, sent |-> <<>>]
    /\ UNCHANGED threads
    /\ UNCHANGED AsyncFrame

\* Worker t takes its step and its frame becomes f.
WorkerAt(t, f) ==
    /\ threads' = [threads EXCEPT ![t] = f]
    /\ UNCHANGED <<call, out>>
    /\ UNCHANGED AsyncFrame

WorkerConnect ==
    \E t \in DOMAIN threads, ok \in BOOLEAN :
        /\ threads[t].pc = "started"
        /\ WorkerAt(t, AfterConnect(threads[t], ok))

WorkerUpload ==
    \E t \in DOMAIN threads,
       fault \in {"none", "resolve", "folder", "upload"} :
        /\ threads[t].pc = "connected"
        /\ WorkerAt(t, AfterUpload(threads[t], fault))

WorkerRemove ==
    \E t \in DOMAIN threads, ok \in BOOLEAN :
        /\ threads[t].pc = "uploaded"
        /\ WorkerAt(t, AfterRemove(threads[t], ok))

NextAsync ==
    \/ AsyncCall
    \/ AsyncReturn
    \/ WorkerConnect
    \/ WorkerUpload
    \/ WorkerRemove

SpecAsync == InitAsync /\ [][NextAsync]_vars

\* C35: sp_upload_async returns to its caller without waiting for the
\* worker; the local file is gone only after upload() returned and
\* os.remove ran; a worker that failed at a step (connect, resolve, folder,
\* upload) left the local file in place, connected and called upload() at
\* most once, and no error reached the caller.
C35_FireAndForget ==
    /\ call.pending => ENABLED AsyncReturn
    /\ out.raised = NoException
    /\ \A t \in DOMAIN threads :
          /\ ~threads[t].local =>
                /\ threads[t].pc = "removed"
                /\ threads[t].failed = "none"
                /\ threads[t].uploads = 1
          /\ threads[t].pc = "failed" =>
                /\ threads[t].local
                /\ threads[t].failed \in WorkerSteps
          /\ threads[t].connects <= 1
          /\ threads[t].uploads <= 1
          /\ threads[t].uploads = 1 => threads[t].connects = 1

\* The caller has its return while the worker has not connected yet, and
\* another worker failed in the folder walk and left its file.
C35_Witness ==
    /\ Len(threads) = 2
    /\ ~call.pending
    /\ call.made = 2
    /\ out.raised = NoException
    /\ threads[1].pc = "failed"
    /\ threads[1].failed = "folder"
    /\ threads[1].local
    /\ threads[2].pc = "started"

\* A worker removed its file after upload() returned.
C35_RemovedWitness ==
    \E t \in DOMAIN threads :
        threads[t].pc = "removed" /\ ~threads[t].local

=============================================================================
